---- MODULE Spec2Model ----
(***************************************************************************)
(* A model of the WHAM solver (src/src/lib.rs), its Dataset                *)
(* (src/src/histogram.rs) and the bootstrap weight generator               *)
(* (src/src/error_analysis.rs).                                            *)
(*                                                                         *)
(* f64 is modelled as a binary floating-point format of reduced size: a    *)
(* finite value is m * 2^e with a mantissa of MantBits bits (53 in f64),   *)
(* every operation rounds to nearest, ties to even, overflows to an        *)
(* infinity and knows NaN. Two things are left out: the sign of zero, and  *)
(* gradual underflow (a result below the exponent range becomes 0).        *)
(* ln and exp are the piecewise-linear interpolations of log2 and 2^x      *)
(* between powers of two, rounded like every other operation: monotone,    *)
(* Ln(1) = 0, Exp(0) = 1, Ln(0) = -inf, Ln(x < 0) = NaN.                   *)
(***************************************************************************)
EXTENDS Integers, Sequences, FiniteSets, TLC

(***************************************************************************)
(* Bounds of the model.                                                    *)
(***************************************************************************)
\* bits of mantissa of the modelled f64
MantBits == 6
\* the largest binary exponent of a finite value, the smallest is -EMax
EMax == 40

(***************************************************************************)
(* f64                                                                     *)
(***************************************************************************)
RECURSIVE Pow2(_)
Pow2(n) == IF n <= 0 THEN 1 ELSE 2 * Pow2(n - 1)

RECURSIVE BitLen(_)
BitLen(n) == IF n <= 0 THEN 0 ELSE 1 + BitLen(n \div 2)

IAbs(n) == IF n < 0 THEN -n ELSE n
ISign(n) == IF n < 0 THEN -1 ELSE IF n = 0 THEN 0 ELSE 1

NaN == [c |-> "nan", m |-> 0, e |-> 0]
Inf == [c |-> "inf", m |-> 1, e |-> 0]
NegInf == [c |-> "inf", m |-> -1, e |-> 0]
Zero == [c |-> "fin", m |-> 0, e |-> 0]
SInf(s) == IF s < 0 THEN NegInf ELSE Inf

IsNaN(x) == x.c = "nan"
IsInf(x) == x.c = "inf"
IsFinite(x) == x.c = "fin"
IsZero(x) == x.c = "fin" /\ x.m = 0

\* m * 2^e rounded to MantBits bits, to nearest and ties to even
Round(m, e) ==
    IF m = 0 THEN Zero
    ELSE LET a == IAbs(m)
             s == ISign(m)
             L == BitLen(a)
             k == L - MantBits
             q == a \div Pow2(k)
             r == a % Pow2(k)
             half == Pow2(k - 1)
             up == r > half \/ (r = half /\ q % 2 = 1)
             q2 == IF k <= 0 THEN a * Pow2(-k) ELSE IF up THEN q + 1 ELSE q
             carry == q2 = Pow2(MantBits)
             mm == IF carry THEN q2 \div 2 ELSE q2
             ee == IF carry THEN e + k + 1 ELSE e + k
             top == ee + MantBits - 1
         IN  IF top > EMax THEN SInf(s)
             ELSE IF top < -EMax THEN Zero
             ELSE [c |-> "fin", m |-> s * mm, e |-> ee]

FromInt(n) == Round(n, 0)
One == FromInt(1)
Half == Round(1, -1)
\* f64::MAX
F64Max == [c |-> "fin", m |-> Pow2(MantBits) - 1, e |-> EMax - MantBits + 1]

Neg(x) == IF x.c = "nan" THEN NaN ELSE [x EXCEPT !.m = -x.m]
FAbs(x) == IF x.c = "nan" THEN NaN ELSE [x EXCEPT !.m = IAbs(x.m)]

Add(x, y) ==
    IF IsNaN(x) \/ IsNaN(y) THEN NaN
    ELSE IF IsInf(x) /\ IsInf(y) THEN (IF x.m = y.m THEN x ELSE NaN)
    ELSE IF IsInf(x) THEN x
    ELSE IF IsInf(y) THEN y
    ELSE IF x.m = 0 THEN y
    ELSE IF y.m = 0 THEN x
    ELSE LET hi == IF x.e >= y.e THEN x ELSE y
             lo == IF x.e >= y.e THEN y ELSE x
             d == hi.e - lo.e
         IN  IF d > MantBits + 1 THEN hi
             ELSE Round(hi.m * Pow2(d) + lo.m, lo.e)

Sub(x, y) == Add(x, Neg(y))

Mul(x, y) ==
    IF IsNaN(x) \/ IsNaN(y) THEN NaN
    ELSE IF IsInf(x) \/ IsInf(y)
         THEN (IF x.m = 0 \/ y.m = 0 THEN NaN ELSE SInf(ISign(x.m) * ISign(y.m)))
    ELSE Round(x.m * y.m, x.e + y.e)

Div(x, y) ==
    IF IsNaN(x) \/ IsNaN(y) THEN NaN
    ELSE IF IsInf(x) THEN (IF IsInf(y) THEN NaN
                           ELSE SInf(x.m * (IF y.m < 0 THEN -1 ELSE 1)))
    ELSE IF IsInf(y) THEN Zero
    ELSE IF y.m = 0 THEN (IF x.m = 0 THEN NaN ELSE SInf(x.m))
    ELSE IF x.m = 0 THEN Zero
    ELSE LET num == IAbs(x.m) * Pow2(MantBits + 2)
             den == IAbs(y.m)
             q == num \div den
             sticky == IF num % den = 0 THEN 0 ELSE 1
         IN  Round(ISign(x.m) * ISign(y.m) * (2 * q + sticky),
                   x.e - y.e - MantBits - 3)

\* the comparisons of f64: every comparison with NaN is false
Lt(x, y) ==
    IF IsNaN(x) \/ IsNaN(y) THEN FALSE
    ELSE IF IsInf(x) \/ IsInf(y)
         THEN (IF IsInf(x) /\ IsInf(y) THEN x.m < y.m
               ELSE IF IsInf(x) THEN x.m < 0
               ELSE y.m > 0)
    ELSE IF ISign(x.m) # ISign(y.m) THEN ISign(x.m) < ISign(y.m)
    ELSE IF x.m = 0 THEN FALSE
    ELSE IF x.m > 0 THEN x.e < y.e \/ (x.e = y.e /\ x.m < y.m)
    ELSE x.e > y.e \/ (x.e = y.e /\ x.m < y.m)

Gt(x, y) == Lt(y, x)
FEq(x, y) == ~IsNaN(x) /\ ~IsNaN(y) /\ x = y
Le(x, y) == Lt(x, y) \/ FEq(x, y)
Ge(x, y) == Le(y, x)

\* ln 2 and log2 e
LN2 == Round(2839, -12)
LOG2E == Round(5909, -12)

\* f64::ln
Ln(x) ==
    IF IsNaN(x) THEN NaN
    ELSE IF IsInf(x) THEN (IF x.m > 0 THEN Inf ELSE NaN)
    ELSE IF x.m < 0 THEN NaN
    ELSE IF x.m = 0 THEN NegInf
    ELSE LET h == Pow2(MantBits - 1)
         IN  Mul(Round((x.e + MantBits - 1) * h + (x.m - h), -(MantBits - 1)), LN2)

\* f64::exp
Exp(x) ==
    IF IsNaN(x) THEN NaN
    ELSE IF IsInf(x) THEN (IF x.m > 0 THEN Inf ELSE Zero)
    ELSE LET z == Mul(x, LOG2E)
         IN  IF IsInf(z) THEN (IF z.m > 0 THEN Inf ELSE Zero)
             ELSE IF z.m = 0 THEN One
             ELSE IF z.e >= 0
                  THEN (IF z.e + MantBits > BitLen(EMax) + 2
                        THEN (IF z.m > 0 THEN Inf ELSE Zero)
                        ELSE Round(1, z.m * Pow2(z.e)))
             ELSE IF -z.e > 2 * MantBits THEN One
             ELSE LET sh == -z.e
                      k == z.m \div Pow2(sh)
                      r == z.m % Pow2(sh)
                  IN  Round(Pow2(sh) + r, k - sh)

(***************************************************************************)
(* Vectors: a Vec<T> of length n is a function on 0 .. n-1.                *)
(***************************************************************************)
Idx(n) == 0 .. (n - 1)
VLen(v) == Cardinality(DOMAIN v)
Fill(x, n) == [i \in Idx(n) |-> x]

\* Iterator::sum over the first k elements, in index order
RECURSIVE SumTo(_, _)
SumTo(v, k) == IF k = 0 THEN Zero ELSE Add(SumTo(v, k - 1), v[k - 1])
FSum(v) == SumTo(v, VLen(v))

\* lengths.iter().take(k).product()
RECURSIVE ProdTake(_, _)
ProdTake(lengths, k) == IF k = 0 THEN 1 ELSE ProdTake(lengths, k - 1) * lengths[k - 1]

(***************************************************************************)
(* Histogram and Dataset (src/src/histogram.rs)                            *)
(***************************************************************************)
Histogram(num_points, bins) == [num_points |-> num_points, bins |-> bins]

\* the loop of expand_index: dimen runs from lengths.len()-1 down to 1
RECURSIVE ExpandLoop(_, _, _, _)
ExpandLoop(tmp, lengths, dimen, idx) ==
    IF dimen < 1 THEN [idx EXCEPT ![0] = tmp]
    ELSE LET denom == ProdTake(lengths, dimen)
         IN  ExpandLoop(tmp % denom, lengths, dimen - 1,
                        [idx EXCEPT ![dimen] = tmp \div denom])

ExpandIndex(bin, lengths) ==
    ExpandLoop(bin, lengths, VLen(lengths) - 1, Fill(0, VLen(lengths)))

GetCoordsForBin(ds, bin) ==
    LET ix == ExpandIndex(bin, ds.dimens_lengths)
    IN  [i \in DOMAIN ix |->
            Add(ds.hist_min[i], Mul(ds.bin_width[i], Add(FromInt(ix[i]), Half)))]

GetBias(ds, bin, window) == ds.bias[window * ds.num_bins + bin]

\* the distance of calc_bias in one dimension
BiasDist(ds, coord, pos, i) ==
    LET dist == FAbs(Sub(coord, pos))
        hist_len == Sub(ds.hist_max[i], ds.hist_min[i])
    IN  IF ds.cyclic /\ Gt(dist, Mul(Half, hist_len))
        THEN Sub(dist, hist_len)
        ELSE dist

\* bias_sum of calc_bias after the dimensions 0 .. k-1
RECURSIVE BiasSum(_, _, _, _)
BiasSum(ds, bin, window, k) ==
    IF k = 0 THEN Zero
    ELSE LET i == k - 1
             dimens == VLen(ds.dimens_lengths)
             ndx == window * dimens + i
             dist == BiasDist(ds, GetCoordsForBin(ds, bin)[i], ds.bias_pos[ndx], i)
         IN  Add(BiasSum(ds, bin, window, k - 1),
                 Mul(Mul(Mul(Half, ds.bias_fc[ndx]), dist), dist))

CalcBias(ds, bin, window) ==
    Exp(Div(Neg(BiasSum(ds, bin, window, VLen(ds.dimens_lengths))), ds.kT))

DatasetNew(num_bins, dimens_lengths, bin_width, hist_min, hist_max, bias_pos, bias_fc, kT, histograms, cyclic) ==
    LET num_windows == VLen(histograms)
        ds == [num_windows |-> num_windows,
               num_bins |-> num_bins,
               dimens_lengths |-> dimens_lengths,
               bin_width |-> bin_width,
               hist_min |-> hist_min,
               hist_max |-> hist_max,
               kT |-> kT,
               histograms |-> histograms,
               cyclic |-> cyclic,
               bias_pos |-> bias_pos,
               bias_fc |-> bias_fc,
               bias |-> Fill(Zero, num_bins * num_windows),
               weights |-> Fill(One, num_windows)]
    IN  [ds EXCEPT !.bias = [ndx \in Idx(num_bins * num_windows) |->
                                CalcBias(ds, ndx % num_bins, ndx \div num_bins)]]

\* a re-weighting that does not carry the bias table over
NewWeightedMut(ds, weights) ==
    [ds EXCEPT !.weights = weights, !.bias = Fill(One, VLen(@))]

\* Dataset { weights, ..ds }
NewWeighted(ds, weights) == [ds EXCEPT !.weights = weights]

GetWeightedBinCountMut(ds, bin) ==
    FSum([idx \in Idx(VLen(ds.histograms)) |-> ds.histograms[idx].bins[bin]])

GetWeightedBinCount(ds, bin) ==
    FSum([idx \in Idx(VLen(ds.histograms)) |->
             Mul(ds.weights[idx], ds.histograms[idx].bins[bin])])

(***************************************************************************)
(* The WHAM equations (src/src/lib.rs)                                     *)
(***************************************************************************)
\* denom_sum of calc_bin_probability
DenomSum(bin, ds, Fv) ==
    FSum([window \in Idx(VLen(ds.histograms)) |->
             Mul(Mul(Mul(ds.weights[window], FromInt(ds.histograms[window].num_points)),
                     GetBias(ds, bin, window)),
                 Fv[window])])

CalcBinProbability(bin, ds, Fv) ==
    Div(GetWeightedBinCount(ds, bin), DenomSum(bin, ds, Fv))

CalcWindowF(window, ds, Pv) ==
    Div(One, FSum([bin \in Idx(ds.num_bins) |-> Mul(Pv[bin], GetBias(ds, bin, window))]))

IsConverged(old_F, new_F, tolerance) ==
    ~ \E w \in DOMAIN new_F : Gt(FAbs(Sub(new_F[w], old_F[w])), tolerance)

\* F as the convergence check sees it: -kT ln F
LogForm(ds, Fv) == [w \in DOMAIN Fv |-> Mul(Neg(ds.kT), Ln(Fv[w]))]

\* the free energy before the shift and its minimum, starting from f64::MAX
RawFreeEnergy(ds, Pv) == [b \in DOMAIN Pv |-> Mul(Neg(ds.kT), Ln(Pv[b]))]

RECURSIVE MinTo(_, _)
MinTo(v, k) ==
    IF k = 0 THEN F64Max
    ELSE LET m == MinTo(v, k - 1)
         IN  IF Lt(v[k - 1], m) THEN v[k - 1] ELSE m

CalcFreeEnergy(ds, Pv) ==
    LET raw == RawFreeEnergy(ds, Pv)
        minimum == MinTo(raw, VLen(raw))
    IN  [b \in DOMAIN raw |-> Sub(raw[b], minimum)]

(***************************************************************************)
(* Inputs of the model                                                     *)
(***************************************************************************)
\* the largest cfg.max_iterations
MaxIterations == 21
\* the largest count of one histogram bin
MaxCount == 2

V1(a) == [i \in Idx(1) |-> a]
V2(a, b) == [i \in Idx(2) |-> IF i = 0 THEN a ELSE b]

\* a histogram as build_histogram_from_timeseries leaves it: num_points = sum(bins)
Hist2(a, b) == Histogram(a + b, V2(FromInt(a), FromInt(b)))

\* two windows over a grid of two bins on [0, 4): the bin centres are 1 and 3
GridDataset(h0, h1, pos0, pos1, fc, kT, cyclic) ==
    DatasetNew(2, V1(2), V1(FromInt(2)), V1(Zero), V1(FromInt(4)),
               V2(pos0, pos1), V2(fc, fc), kT, V2(h0, h1), cyclic)

Counts == 0 .. MaxCount
WeightVectors == {V2(One, One), V2(Zero, One), V2(Round(1, -2), Round(3, -2))}

Tolerances == {Zero, Round(1, -4)}

\* cfg.max_iterations: no iteration, one, the first convergence check, and the
\* largest two
Caps == {0, 1, 10, MaxIterations - 1, MaxIterations}

(***************************************************************************)
(* State                                                                   *)
(***************************************************************************)
VARIABLES
    cfg,          \* Config: max_iterations, tolerance
    dataset,      \* the Dataset perform_wham is called with
    P,            \* bin probability
    F,            \* bias offset exp(F/kT)
    F_prev,       \* previous bias offset
    F_tmp,        \* temp storage for F
    iteration,
    converged,
    pc,           \* the position of perform_wham
    result,       \* "none" until perform_wham returns, then "ok" or "err"
    free_energy,  \* the vector calc_free_energy returned
    pWrites,      \* writes of each P[b] by the bin loop of the running iteration
    fWrites,      \* writes of each F[w] by the window loop of the running iteration
    checks,       \* convergence checks that succeeded so far
    lastOp,       \* the last operation on the dataset
    given,        \* the weights handed to the last Dataset::new_weighted
    reassigned,   \* cyclic or kT was assigned since Dataset::new
    gen,          \* generate_random_weights: num_windows, tmp, rnds, weights, pc
    boot,         \* run_bootstrap: seed, rng, num_runs, run, bootstrapped_Ps, pc, ...
    call          \* the call of a function of the input stage in progress

solver == <<cfg, P, F, F_prev, F_tmp, iteration, converged, pc, result,
            free_energy, pWrites, fWrites, checks>>
life == <<lastOp, given, reassigned>>
vars == <<solver, dataset, life, gen, boot, call>>

Bins == Idx(dataset.num_bins)
Windows == Idx(dataset.num_windows)

(***************************************************************************)
(* perform_wham                                                            *)
(***************************************************************************)
\* the vectors perform_wham allocates
Allocated(c, ds) ==
    /\ cfg = c
    /\ dataset = ds
    /\ P = Fill(NaN, ds.num_bins)
    /\ F = Fill(One, ds.num_windows)
    /\ F_prev = Fill(NaN, ds.num_windows)
    /\ F_tmp = Fill(NaN, ds.num_windows)
    /\ iteration = 0
    /\ converged = FALSE
    /\ result = "none"
    /\ free_energy = Fill(NaN, ds.num_bins)
    /\ pWrites = Fill(0, ds.num_bins)
    /\ fWrites = Fill(0, ds.num_windows)
    /\ checks = 0

\* the state after the allocations of perform_wham
WhamInit(c, ds) == Allocated(c, ds) /\ pc = "while"

\* no function of the input stage is running
NoCall == [fn |-> "none"]

\* run_bootstrap is not running
BootIdle == [pc |-> "idle"]

\* generate_random_weights is not running
GenIdle == [num_windows |-> 0, tmp |-> <<>>, rnds |-> <<>>, weights |-> <<>>, pc |-> "idle"]

\* the loop head with the cap off by one
LoopCondMut == ~converged /\ iteration <= cfg.max_iterations

\* while !converged && iteration < cfg.max_iterations
LoopCond == ~converged /\ iteration < cfg.max_iterations

\* the loop head holds: count the iteration, store F, call perform_wham_iteration
LoopEnter ==
    /\ pc = "while"
    /\ LoopCond
    /\ iteration' = iteration + 1
    /\ F_prev' = F
    /\ pWrites' = Fill(0, dataset.num_bins)
    /\ fWrites' = Fill(0, dataset.num_windows)
    /\ pc' = "iter"
    /\ UNCHANGED <<cfg, dataset, P, F, F_tmp, converged, result, free_energy, checks, life, gen, boot, call>>

LoopExit ==
    /\ pc = "while"
    /\ ~LoopCond
    /\ pc' = "norm"
    /\ UNCHANGED <<cfg, dataset, P, F, F_prev, F_tmp, iteration, converged, result,
                   free_energy, pWrites, fWrites, checks, life, gen, boot, call>>

\* a bin loop that hands a bin out again
BinPendingMut(bin) == TRUE

\* the bin loop hands every bin to one worker
BinPending(bin) == pWrites[bin] = 0

\* a worker of the bin loop: P[bin] from F_prev
BinWorker(bin) ==
    /\ pc = "iter"
    /\ BinPending(bin)
    /\ P' = [P EXCEPT ![bin] = CalcBinProbability(bin, dataset, F_prev)]
    /\ pWrites' = [pWrites EXCEPT ![bin] = @ + 1]
    /\ UNCHANGED <<cfg, dataset, F, F_prev, F_tmp, iteration, converged, pc, result,
                   free_energy, fWrites, checks, life, gen, boot, call>>

\* the two loops without the barrier between them
BinLoopDoneMut == TRUE

\* collect_into_vec(P) returns when every bin is written
BinLoopDone == \A bin \in Bins : ~BinPending(bin)

WindowPending(window) == fWrites[window] = 0

\* a worker of the window loop: F[window] from P
WindowWorker(window) ==
    /\ pc = "iter"
    /\ BinLoopDone
    /\ WindowPending(window)
    /\ F' = [F EXCEPT ![window] = CalcWindowF(window, dataset, P)]
    /\ fWrites' = [fWrites EXCEPT ![window] = @ + 1]
    /\ UNCHANGED <<cfg, dataset, P, F_prev, F_tmp, iteration, converged, pc, result,
                   free_energy, pWrites, checks, life, gen, boot, call>>

WindowLoopDone == \A window \in Windows : ~WindowPending(window)

\* perform_wham_iteration returns
IterationReturn ==
    /\ pc = "iter"
    /\ BinLoopDone
    /\ WindowLoopDone
    /\ pc' = "check"
    /\ UNCHANGED <<cfg, dataset, P, F, F_prev, F_tmp, iteration, converged, result,
                   free_energy, pWrites, fWrites, checks, life, gen, boot, call>>

CheckDueMut == iteration % 5 = 0

CheckDue == iteration % 10 = 0

\* the convergence check: F and F_prev go to -kT ln, F is restored from F_tmp
ConvergenceCheck ==
    /\ pc = "check"
    /\ CheckDue
    /\ F_tmp' = F
    /\ F_prev' = LogForm(dataset, F_prev)
    /\ converged' = IsConverged(LogForm(dataset, F_prev), LogForm(dataset, F),
                                cfg.tolerance)
    /\ checks' = IF converged' THEN checks + 1 ELSE checks
    /\ F' = F_tmp'
    /\ pc' = "while"
    /\ UNCHANGED <<cfg, dataset, P, iteration, result, free_energy, pWrites, fWrites, life, gen, boot, call>>

NoCheck ==
    /\ pc = "check"
    /\ ~CheckDue
    /\ pc' = "while"
    /\ UNCHANGED <<cfg, dataset, P, F, F_prev, F_tmp, iteration, converged, result,
                   free_energy, pWrites, fWrites, checks, life, gen, boot, call>>

\* Normalize P to sum(P) = 1.0
NormalizeP(Pv) == LET P_sum == FSum(Pv) IN [b \in DOMAIN Pv |-> Div(Pv[b], P_sum)]

Normalize ==
    /\ pc = "norm"
    /\ P' = NormalizeP(P)
    /\ pc' = "ret"
    /\ UNCHANGED <<cfg, dataset, F, F_prev, F_tmp, iteration, converged, result,
                   free_energy, pWrites, fWrites, checks, life, gen, boot, call>>

\* if iteration == cfg.max_iterations { bail!(...) }
Bails == iteration = cfg.max_iterations

Return ==
    /\ pc = "ret"
    /\ result' = IF Bails THEN "err" ELSE "ok"
    /\ pc' = "done"
    /\ UNCHANGED <<cfg, dataset, P, F, F_prev, F_tmp, iteration, converged,
                   free_energy, pWrites, fWrites, checks, life, gen, boot, call>>

\* run: calc_free_energy(&dataset, &P) on the P of a successful solve
FreeEnergy ==
    /\ pc = "done"
    /\ result = "ok"
    /\ free_energy' = CalcFreeEnergy(dataset, P)
    /\ pc' = "end"
    /\ UNCHANGED <<cfg, dataset, P, F, F_prev, F_tmp, iteration, converged, result,
                   pWrites, fWrites, checks, life, gen, boot, call>>

\* the datasets perform_wham is called with: from read_data, or re-weighted by
\* the bootstrap. The biases sit on the bin centres. A window may be empty (a
\* non-final convdt interval, or ignore_empty) and a weight may be 0.
Init ==
    \E c \in [max_iterations : Caps, tolerance : Tolerances],
       a \in Counts, k \in {0, 1}, d \in Counts, w \in WeightVectors :
        /\ WhamInit(c, NewWeighted(GridDataset(Hist2(a, 0), Hist2(k, d), One, FromInt(3),
                                                FromInt(8), One, FALSE), w))
        /\ lastOp = "new_weighted"
        /\ given = w
        /\ reassigned = FALSE
        /\ gen = GenIdle
        /\ boot = BootIdle
        /\ call = NoCall

Next ==
    \/ LoopEnter
    \/ LoopExit
    \/ \E bin \in Bins : BinWorker(bin)
    \/ \E window \in Windows : WindowWorker(window)
    \/ IterationReturn
    \/ ConvergenceCheck
    \/ NoCheck
    \/ Normalize
    \/ Return
    \/ FreeEnergy

Spec == Init /\ [][Next]_vars

(***************************************************************************)
(* The life of a Dataset: Dataset::new, Dataset::new_weighted and the      *)
(* assignments its public fields cyclic and kT allow                       *)
(***************************************************************************)
KTs == {One, FromInt(2)}

\* no solve is running
NoSolve(ds) ==
    /\ Allocated([max_iterations |-> 0, tolerance |-> Zero], ds)
    /\ pc = "idle"

\* Dataset::new on a grid where the cyclic wrap changes a distance
DatasetInit ==
    \E a \in Counts, pos0 \in {Half, One}, pos1 \in {FromInt(3), Round(7, -1)},
       kT \in KTs, cyclic \in BOOLEAN :
        /\ NoSolve(GridDataset(Hist2(a, 0), Hist2(0, 1), pos0, pos1, One, kT, cyclic))
        /\ lastOp = "new"
        /\ given = V2(One, One)
        /\ reassigned = FALSE
        /\ gen = GenIdle
        /\ boot = BootIdle
        /\ call = NoCall

\* ds.cyclic = c
AssignCyclic(c) ==
    /\ dataset' = [dataset EXCEPT !.cyclic = c]
    /\ lastOp' = "assign_cyclic"
    /\ reassigned' = TRUE
    /\ UNCHANGED <<solver, given, gen, boot, call>>

\* ds.kT = kT
AssignKT(kT) ==
    /\ dataset' = [dataset EXCEPT !.kT = kT]
    /\ lastOp' = "assign_kT"
    /\ reassigned' = TRUE
    /\ UNCHANGED <<solver, given, gen, boot, call>>

\* Dataset::new_weighted(ds, weights)
NewWeightedCall(w) ==
    /\ dataset' = NewWeighted(dataset, w)
    /\ lastOp' = "new_weighted"
    /\ given' = w
    /\ UNCHANGED <<solver, reassigned, gen, boot, call>>

DatasetNext ==
    \/ \E c \in BOOLEAN : AssignCyclic(c)
    \/ \E kT \in KTs : AssignKT(kT)
    \/ \E w \in WeightVectors : NewWeightedCall(w)

SpecDataset == DatasetInit /\ [][DatasetNext]_vars

(***************************************************************************)
(* generate_random_weights and generate_random_weighted_dataset            *)
(* (src/src/error_analysis.rs)                                             *)
(***************************************************************************)
\* the largest num_windows of the generator
MaxWindows == 3
\* rng.gen::<f64>() is a multiple of 2^-RngBits in [0, 1) (2^-53 in the program)
RngBits == 3

RngValues == { Round(k, -RngBits) : k \in 0 .. (Pow2(RngBits) - 1) }

Push(v, x) == [i \in Idx(VLen(v) + 1) |-> IF i < VLen(v) THEN v[i] ELSE x]
Concat(u, v) ==
    [i \in Idx(VLen(u) + VLen(v)) |-> IF i < VLen(u) THEN u[i] ELSE v[i - VLen(u)]]

\* x put into the ascending vector v, after the elements that are not larger
Insert(v, x) ==
    LET at == Cardinality({i \in DOMAIN v : Le(v[i], x)})
    IN  [i \in Idx(VLen(v) + 1) |->
            IF i < at THEN v[i] ELSE IF i = at THEN x ELSE v[i - 1]]

RECURSIVE SortTo(_, _)
SortTo(v, k) == IF k = 0 THEN <<>> ELSE Insert(SortTo(v, k - 1), v[k - 1])

\* the break-points left in the order they were drawn
SortAscMut(v) == v

\* tmp.sort_by(|a,b| a.partial_cmp(b).unwrap())
SortAsc(v) == SortTo(v, VLen(v))

\* weights[i] = rnds[i+1] - rnds[i]
Differences(rnds, num_windows) ==
    [i \in Idx(num_windows) |-> Sub(rnds[i + 1], rnds[i])]

\* n windows with the same histogram, the biases alternating between the bins
WindowsDataset(n) ==
    DatasetNew(2, V1(2), V1(FromInt(2)), V1(Zero), V1(FromInt(4)),
               [i \in Idx(n) |-> IF i % 2 = 0 THEN One ELSE FromInt(3)],
               Fill(One, n), One, Fill(Hist2(1, 1), n), FALSE)

\* generate_random_weighted_dataset calls generate_random_weights(ds.num_windows, rng)
GenInit ==
    \E n \in 2 .. MaxWindows :
        /\ NoSolve(WindowsDataset(n))
        /\ lastOp = "new"
        /\ given = Fill(One, n)
        /\ reassigned = FALSE
        /\ gen = [num_windows |-> n, tmp |-> <<>>, rnds |-> <<>>, weights |-> <<>>,
                  pc |-> "draw"]
        /\ boot = BootIdle
        /\ call = NoCall

\* one more of the num_windows - 1 random numbers
GenDraw(u) ==
    /\ gen.pc = "draw"
    /\ VLen(gen.tmp) < gen.num_windows - 1
    /\ gen' = [gen EXCEPT !.tmp = Push(@, u)]
    /\ UNCHANGED <<solver, dataset, life, boot, call>>

\* sort them and put them between 0 and 1
GenSort ==
    /\ gen.pc = "draw"
    /\ VLen(gen.tmp) = gen.num_windows - 1
    /\ gen' = [gen EXCEPT !.rnds = Concat(Concat(V1(Zero), SortAsc(gen.tmp)), V1(One)),
                          !.tmp = <<>>,
                          !.pc = "diff"]
    /\ UNCHANGED <<solver, dataset, life, boot, call>>

GenDiff ==
    /\ gen.pc = "diff"
    /\ gen' = [gen EXCEPT !.weights = Differences(gen.rnds, gen.num_windows),
                          !.pc = "done"]
    /\ UNCHANGED <<solver, dataset, life, boot, call>>

\* Dataset::new_weighted(ds, weights) of generate_random_weighted_dataset
GenApply ==
    /\ gen.pc = "done"
    /\ dataset' = NewWeighted(dataset, gen.weights)
    /\ lastOp' = "new_weighted"
    /\ given' = gen.weights
    /\ gen' = [gen EXCEPT !.pc = "applied"]
    /\ UNCHANGED <<solver, reassigned, boot, call>>

GenNext ==
    \/ \E u \in RngValues : GenDraw(u)
    \/ GenSort
    \/ GenDiff
    \/ GenApply

SpecWeights == GenInit /\ [][GenNext]_vars

(***************************************************************************)
(* Claims about perform_wham                                               *)
(***************************************************************************)
Returned == pc \in {"done", "end"}
LoopEnded == pc \in {"norm", "ret", "done", "end"}

\* the steps perform_wham still has to take, at most: a variant of its loop
Variant ==
    CASE pc = "end" -> 0
      [] pc = "done" -> 1
      [] pc = "ret" -> 2
      [] pc = "norm" -> 3
      [] OTHER ->
            4 + (cfg.max_iterations - iteration)
                    * (dataset.num_bins + dataset.num_windows + 3)
              + (CASE pc = "while" -> 0
                   [] pc = "check" -> 1
                   [] OTHER -> 2 + Cardinality({bin \in Bins : BinPending(bin)})
                                 + Cardinality({window \in Windows : WindowPending(window)}))

\* some step of perform_wham can be taken
CanStep ==
    \/ pc \in {"while", "check", "norm", "ret"}
    \/ /\ pc = "iter"
       /\ \/ \E bin \in Bins : BinPending(bin)
          \/ BinLoopDone /\ \E window \in Windows : WindowPending(window)
          \/ BinLoopDone /\ WindowLoopDone

\* what every step of perform_wham keeps
C1_Step ==
    /\ Variant' < Variant
    /\ Variant' >= 0
    /\ Returned' \/ CanStep'
    /\ iteration' <= cfg.max_iterations
    /\ LoopEnded' => (converged' \/ iteration' = cfg.max_iterations)

\* C1: perform_wham terminates: every step brings it nearer to its return
\* (the variant is a natural number and decreases) and it is never stuck
\* before; its loop calls perform_wham_iteration at most max_iterations times
\* and ends either converged or with the iteration counter at max_iterations.
C1_Terminates == [][C1_Step]_vars

\* the cap of 20 or more iterations was reached without convergence
C1_Witness ==
    pc = "done" /\ ~converged /\ iteration = cfg.max_iterations /\ iteration >= 20

\* C2: perform_wham returns the error exactly when the loop ended without a
\* successful convergence check; a check that succeeds at any iteration up to
\* and including max_iterations gives Ok.
C2_ErrorIffNotConverged ==
    Returned => (result = "err" <=> ~converged)

\* the sum of v is 1 to the rounding of the additions
SumEps == Round(1, -(MantBits - 2))
SumIsOne(v) == IsFinite(FSum(v)) /\ Le(FAbs(Sub(FSum(v), One)), SumEps)

\* C3: whenever the loop has ended, by convergence or at the cap, also with
\* max_iterations = 0 and with a P of zeros, P is rescaled so that its sum is 1.
C3_NormalizedSumIsOne ==
    pc \in {"ret", "done", "end"} => SumIsOne(P)

\* perform_wham_iteration run sequentially in index order
SeqP(ds, Fp) == [bin \in Idx(ds.num_bins) |-> CalcBinProbability(bin, ds, Fp)]
SeqF(ds, Pv) == [window \in Idx(ds.num_windows) |-> CalcWindowF(window, ds, Pv)]

\* C4: within one perform_wham_iteration every written P[b] is the value
\* computed from F_prev, and an F[w] is written only when every P[b] of the
\* same iteration has been written: every written F[w] is the value computed
\* from the P of this iteration, never from a P[b] of an earlier one.
C4_PhaseOrder ==
    pc = "iter" =>
        /\ \A bin \in Bins :
            pWrites[bin] > 0 => P[bin] = CalcBinProbability(bin, dataset, F_prev)
        /\ \A window \in Windows :
            fWrites[window] > 0 =>
                /\ \A bin \in Bins : pWrites[bin] > 0
                /\ F[window] = CalcWindowF(window, dataset, SeqP(dataset, F_prev))

\* a later iteration between its two window writes, the first one changed F
C4_Witness ==
    /\ pc = "iter"
    /\ iteration >= 2
    /\ fWrites = V2(1, 0)
    /\ F[0] # F_prev[0]

\* what every step of the workers keeps
C5_Step ==
    /\ dataset' = dataset
    /\ \A bin \in Bins : pWrites'[bin] <= 1
    /\ \A window \in Windows : fWrites'[window] <= 1
    /\ pc' = "check" =>
        /\ \A bin \in Bins : pWrites'[bin] = 1
        /\ \A window \in Windows : fWrites'[window] = 1
        /\ P' = SeqP(dataset, F_prev')
        /\ F' = SeqF(dataset, SeqP(dataset, F_prev'))

\* C5: the workers of the bin loop write every P[b] exactly once and those of
\* the window loop every F[w] exactly once; in whatever order they run, the
\* P and F perform_wham_iteration returns are those of the sequential
\* execution in index order, and the dataset is unchanged.
C5_WorkersConfluent == [][C5_Step]_vars

\* the window loop ran in the order 1, 0 and the iteration changed F
C5_Witness ==
    /\ pc = "iter"
    /\ fWrites = V2(0, 1)
    /\ F[1] # F_prev[1]

\* C8: a bin whose denominator sum is zero gets P[b] = 0.
C8_ZeroDenominatorGivesZero ==
    pc = "iter" =>
        \A bin \in Bins :
            (pWrites[bin] = 1 /\ IsZero(DenomSum(bin, dataset, F_prev)))
                => IsZero(P[bin])

\* C9: for the P of a successful solve, the minimum of the free energy is
\* exactly 0, every finite A[b] is -kT ln P[b] - A_min, and a bin with
\* P[b] = 0 has A[b] = +inf.
C9_FreeEnergyOffset ==
    pc = "end" =>
        LET raw == RawFreeEnergy(dataset, P) IN
        /\ \E bin \in Bins : IsZero(free_energy[bin])
        /\ \A bin \in Bins : Ge(free_energy[bin], Zero)
        /\ \E low \in Bins :
            /\ \A bin \in Bins : Le(raw[low], raw[bin])
            /\ \A bin \in Bins :
                IsFinite(free_energy[bin]) => free_energy[bin] = Sub(raw[bin], raw[low])
        /\ \A bin \in Bins : IsZero(P[bin]) => free_energy[bin] = Inf

(***************************************************************************)
(* Claims about the Dataset                                                *)
(***************************************************************************)
BiasCacheConsistent ==
    \A window \in Windows : \A bin \in Bins :
        GetBias(dataset, bin, window) = CalcBias(dataset, bin, window)

\* C6: in every reachable state of a Dataset, also after an assignment to
\* cyclic or kT, get_bias(bin, window) equals calc_bias(bin, window)
\* recomputed from the current fields.
C6_BiasCacheConsistent ==
    lastOp \in {"new", "new_weighted", "assign_cyclic", "assign_kT"} => BiasCacheConsistent

\* what holds of the code: the table is the one of the construction
BiasCacheConsistentWhileUnassigned == ~reassigned => BiasCacheConsistent

\* a step that is a Dataset::new_weighted
C7_Step ==
    lastOp' = "new_weighted" =>
        /\ dataset'.weights = given'
        /\ \A f \in (DOMAIN dataset) \ {"weights"} : dataset'[f] = dataset[f]
        /\ DOMAIN dataset' = DOMAIN dataset

\* C7: Dataset::new_weighted(ds, weights) returns a dataset whose weights are
\* the given vector and whose every other field, the cached bias table
\* included, is that of ds.
C7_NewWeightedFrame == [][C7_Step]_vars

\* a cyclic dataset with an assigned kT was given unequal weights
C7_Witness ==
    /\ lastOp = "new_weighted"
    /\ dataset.weights = V2(Round(1, -2), Round(3, -2))
    /\ dataset.cyclic
    /\ dataset.kT = FromInt(2)

(***************************************************************************)
(* Claims about the bootstrap weights                                      *)
(***************************************************************************)
\* C10: for num_windows >= 2 generate_random_weights returns exactly
\* num_windows weights, each in [0, 1], whose sum is 1.
C10_WeightsSumToOne ==
    gen.pc \in {"done", "applied"} =>
        /\ gen.num_windows >= 2
        /\ VLen(gen.weights) = gen.num_windows
        /\ \A i \in DOMAIN gen.weights :
            Ge(gen.weights[i], Zero) /\ Le(gen.weights[i], One)
        /\ FSum(gen.weights) = One

\* three windows, the draws came in descending order
C10_Witness ==
    /\ gen.pc = "done"
    /\ gen.num_windows = 3
    /\ gen.rnds[1] # gen.rnds[2]
    /\ \A i \in DOMAIN gen.weights : Gt(gen.weights[i], Zero)

\* every weight of v lies strictly between 0 and 1
StrictlyInside(v) == \A i \in DOMAIN v : Gt(v[i], Zero) /\ Lt(v[i], One)

\* C11: every weight generate_random_weights returns, and every weight of the
\* dataset generate_random_weighted_dataset returns, is strictly greater than
\* 0 and strictly less than 1.
C11_WeightsStrictlyInside ==
    /\ gen.pc \in {"done", "applied"} => StrictlyInside(gen.weights)
    /\ gen.pc = "applied" => StrictlyInside(dataset.weights)

(***************************************************************************)
(* run_bootstrap (src/src/error_analysis.rs)                               *)
(***************************************************************************)
\* the largest num_runs
MaxRuns == 2
\* the largest cfg.bootstrap_seed
MaxSeed == 3

\* the largest integer whose square is at most n
RECURSIVE ISqrt(_)
ISqrt(n) ==
    IF n < 2 THEN n
    ELSE LET s == 2 * ISqrt(n \div 4)
         IN  IF (s + 1) * (s + 1) <= n THEN s + 1 ELSE s

\* f64::sqrt
Sqrt(x) ==
    CASE IsNaN(x) -> NaN
      [] IsInf(x) -> IF x.m > 0 THEN Inf ELSE NaN
      [] IsZero(x) -> Zero
      [] x.m < 0 -> NaN
      [] OTHER ->
            LET k == 2 * MantBits + (IF (x.e % 2) = 0 THEN 0 ELSE 1)
            IN  Round(ISqrt(x.m * Pow2(k)), (x.e - k) \div 2)

\* the mean the standard deviation is taken about
Mean(x) == Div(FSum(x), FromInt(VLen(x)))

\* statistics::sd(&x, 1, n): the sample standard deviation
Sd(x) ==
    LET x_mean == Mean(x)
        n == FromInt(VLen(x))
        sum == FSum([i \in DOMAIN x |-> Mul(Sub(x[i], x_mean), Sub(x[i], x_mean))])
    IN  Sqrt(Mul(Div(One, Sub(n, One)), sum))

\* SE = SD/sqrt(n) of every bin over the runs
StdErr(vs, num_bins, num_runs) ==
    [bin \in Idx(num_bins) |->
        Div(Sd([x \in Idx(num_runs) |-> vs[x][bin]]), Sqrt(FromInt(num_runs)))]

\* StdRng: seed_from_u64 and the step of the generator, a full-period
\* congruential generator on RngBits bits
SeedFromU64(seed) == seed % Pow2(RngBits)
RngNext(s) == (5 * s + 3) % Pow2(RngBits)
RngValue(s) == Round(s, -RngBits)

\* a generator seeded differently in every execution
SeededRngMut(b) == SeedFromU64(b.seed + b.exec)

\* let mut rng: StdRng = SeedableRng::seed_from_u64(cfg.bootstrap_seed)
SeededRng(b) == SeedFromU64(b.seed)

\* run_bootstrap(cfg, ds, num_runs) is called; exec counts the executions of
\* the same call, first keeps what the first execution drew and returned
BootInit ==
    \E c \in [max_iterations : {10, MaxIterations}, tolerance : {Round(1, -4)}],
       a \in {1, 2}, seed \in 0 .. MaxSeed, num_runs \in 1 .. MaxRuns :
        LET ds == GridDataset(Hist2(a, 0), Hist2(1, 1), One, FromInt(3), FromInt(8), One, FALSE)
        IN  /\ Allocated(c, ds)
            /\ pc = "idle"
            /\ lastOp = "new"
            /\ given = V2(One, One)
            /\ reassigned = FALSE
            /\ gen = GenIdle
            /\ boot = [pc |-> "seed", seed |-> seed, rng |-> 0, num_runs |-> num_runs,
                       x |-> 0, ds |-> ds, bootstrapped_Ps |-> <<>>, drawn |-> <<>>,
                       out |-> "none", exec |-> 1, first |-> "none"]
            /\ call = NoCall

\* seed the rng
BootSeed ==
    /\ boot.pc = "seed"
    /\ boot' = [boot EXCEPT !.rng = SeededRng(boot), !.pc = "run"]
    /\ UNCHANGED <<solver, dataset, life, gen, call>>

\* the closure of a run starts: ds.clone() and generate_random_weights
BootClone ==
    /\ boot.pc = "run"
    /\ boot.x < boot.num_runs
    /\ dataset' = boot.ds
    /\ lastOp' = "clone"
    /\ gen' = [num_windows |-> boot.ds.num_windows, tmp |-> <<>>, rnds |-> <<>>,
               weights |-> <<>>, pc |-> "draw"]
    /\ boot' = [boot EXCEPT !.pc = "weights"]
    /\ UNCHANGED <<solver, given, reassigned, call>>

\* rng.gen::<f64>() steps the generator of run_bootstrap
BootDraw ==
    /\ boot.pc = "weights"
    /\ gen.pc = "draw"
    /\ VLen(gen.tmp) < gen.num_windows - 1
    /\ gen' = [gen EXCEPT !.tmp = Push(@, RngValue(RngNext(boot.rng)))]
    /\ boot' = [boot EXCEPT !.rng = RngNext(@)]
    /\ UNCHANGED <<solver, dataset, life, call>>

\* perform_wham(cfg, &rnd_weighted_dataset) is called
BootSolve ==
    /\ boot.pc = "weights"
    /\ gen.pc = "applied"
    /\ P' = Fill(NaN, dataset.num_bins)
    /\ F' = Fill(One, dataset.num_windows)
    /\ F_prev' = Fill(NaN, dataset.num_windows)
    /\ F_tmp' = Fill(NaN, dataset.num_windows)
    /\ iteration' = 0
    /\ converged' = FALSE
    /\ result' = "none"
    /\ pWrites' = Fill(0, dataset.num_bins)
    /\ fWrites' = Fill(0, dataset.num_windows)
    /\ pc' = "while"
    /\ gen' = GenIdle
    /\ boot' = [boot EXCEPT !.pc = "solve", !.drawn = Push(@, dataset.weights)]
    /\ UNCHANGED <<cfg, dataset, free_energy, checks, life, call>>

\* .unwrap().0 of the result of perform_wham: the P of the run, or a panic
BootCollect ==
    /\ boot.pc = "solve"
    /\ pc = "done"
    /\ pc' = "idle"
    /\ boot' = IF result = "err"
               THEN [boot EXCEPT !.pc = "panic", !.out = "panic"]
               ELSE [boot EXCEPT !.pc = "run", !.x = @ + 1,
                                 !.bootstrapped_Ps = Push(@, P)]
    /\ UNCHANGED <<cfg, dataset, P, F, F_prev, F_tmp, iteration, converged, result,
                   free_energy, pWrites, fWrites, checks, life, gen, call>>

\* the standard errors of P and of the free energy over the runs
BootStats ==
    /\ boot.pc = "run"
    /\ boot.x = boot.num_runs
    /\ LET bootstrapped_As ==
               [x \in Idx(boot.num_runs) |-> CalcFreeEnergy(boot.ds, boot.bootstrapped_Ps[x])]
           P_se == StdErr(boot.bootstrapped_Ps, boot.ds.num_bins, boot.num_runs)
           A_se == StdErr(bootstrapped_As, boot.ds.num_bins, boot.num_runs)
       IN  boot' = [boot EXCEPT !.pc = "done", !.out = <<P_se, A_se>>]
    /\ UNCHANGED <<solver, dataset, life, gen, call>>

\* the same call is executed once more
BootAgain ==
    /\ boot.pc \in {"done", "panic"}
    /\ boot.exec = 1
    /\ boot' = [boot EXCEPT !.pc = "seed", !.exec = 2, !.rng = 0, !.x = 0,
                            !.bootstrapped_Ps = <<>>, !.drawn = <<>>, !.out = "none",
                            !.first = [drawn |-> boot.drawn, out |-> boot.out]]
    /\ UNCHANGED <<solver, dataset, life, gen, call>>

BootNext ==
    \/ BootSeed
    \/ BootClone
    \/ BootDraw
    \/ GenSort
    \/ GenDiff
    \/ GenApply
    \/ BootSolve
    \/ LoopEnter
    \/ LoopExit
    \/ \E bin \in Bins : BinWorker(bin)
    \/ \E window \in Windows : WindowWorker(window)
    \/ IterationReturn
    \/ ConvergenceCheck
    \/ NoCheck
    \/ Normalize
    \/ Return
    \/ BootCollect
    \/ BootStats
    \/ BootAgain

SpecBootstrap == BootInit /\ [][BootNext]_vars

(***************************************************************************)
(* Claims about run_bootstrap                                              *)
(***************************************************************************)
\* C12: run_bootstrap is deterministic in (cfg.bootstrap_seed, dataset,
\* num_runs): a second execution of the same call draws the same weight
\* vectors in the same run order and returns the same standard errors.
C12_BootstrapDeterministic ==
    boot.exec = 2 =>
        /\ VLen(boot.drawn) <= VLen(boot.first.drawn)
        /\ \A r \in DOMAIN boot.drawn : boot.drawn[r] = boot.first.drawn[r]
        /\ boot.pc \in {"done", "panic"} =>
            /\ boot.drawn = boot.first.drawn
            /\ boot.out = boot.first.out

\* the second execution returned the standard errors of two runs whose
\* weights differ
C12_Witness ==
    /\ boot.exec = 2
    /\ boot.pc = "done"
    /\ boot.num_runs = 2
    /\ boot.drawn[0] # boot.drawn[1]
    /\ boot.out = boot.first.out

\* C13: when perform_wham fails to converge in a bootstrap run, run_bootstrap
\* hands the failure to its caller as an error value: the process does not
\* panic.
C13_BootstrapErrorPropagates ==
    [][(boot.pc = "solve" /\ pc = "done" /\ result = "err")
            => (boot'.out = "err" /\ boot'.pc # "panic")]_vars

(***************************************************************************)
(* statistical_ineff (src/src/correlation_analysis.rs, src/src/statistics.rs) *)
(***************************************************************************)
\* the largest length of a time series
MaxSeries == 4

SeriesValues == {Zero, One, FromInt(2)}
Two == FromInt(2)

\* the solver, the generator and the bootstrap are not running
InputStage ==
    /\ NoSolve(GridDataset(Hist2(1, 0), Hist2(0, 1), One, FromInt(3), FromInt(8), One, FALSE))
    /\ lastOp = "new"
    /\ given = V2(One, One)
    /\ reassigned = FALSE
    /\ gen = GenIdle
    /\ boot = BootIdle

\* statistics::autocov
Autocov(x) ==
    LET x_mean == Mean(x)
    IN  Div(FSum([i \in DOMAIN x |-> Mul(Sub(x[i], x_mean), Sub(x[i], x_mean))]),
            FromInt(VLen(x)))

\* autocorrelation of a series of length n >= 1: the entries for t = 1 .. n-2
Autocorrelation(timeseries) ==
    LET n == VLen(timeseries)
        mean == Mean(timeseries)
        d_mean == [i \in DOMAIN timeseries |-> Sub(timeseries[i], mean)]
        cov == Autocov(timeseries)
    IN  [k \in Idx(n - 2) |->
            LET t == k + 1
                tmp == [i \in Idx(n - t) |-> Mul(d_mean[i], d_mean[t + i])]
            IN  Div(FSum([i \in DOMAIN tmp |-> Add(tmp[i], tmp[i])]),
                    Mul(Mul(Two, Sub(FromInt(n), FromInt(t))), cov))]

\* statistical_ineff(timeseries) is called
IneffInit ==
    \E n \in 0 .. MaxSeries : \E timeseries \in [Idx(n) -> SeriesValues] :
        /\ InputStage
        /\ call = [fn |-> "statistical_ineff", timeseries |-> timeseries, pc |-> "autocorr",
                   autocorr |-> <<>>, g |-> One, t |-> 1, ret |-> NaN]

\* let autocorr = autocorrelation(timeseries): for t in 1..(n-1) with n = 0
\* panics on the subtraction, or with the subtraction wrapped on the slice
\* d_mean[0..n-t]
IneffAutocorr ==
    /\ call.fn = "statistical_ineff"
    /\ call.pc = "autocorr"
    /\ call' = IF VLen(call.timeseries) = 0
               THEN [call EXCEPT !.pc = "panic"]
               ELSE [call EXCEPT !.autocorr = Autocorrelation(call.timeseries), !.pc = "loop"]
    /\ UNCHANGED <<solver, dataset, life, gen, boot>>

\* one pass of for t in 1..(n-1)
IneffLoop ==
    /\ call.fn = "statistical_ineff"
    /\ call.pc = "loop"
    /\ LET n == VLen(call.timeseries)
           t == call.t
       IN  IF t < n - 1
           THEN LET c == call.autocorr[t - 1]
                IN  IF Le(c, Zero)
                    THEN call' = [call EXCEPT !.pc = "clamp"]
                    ELSE call' = [call EXCEPT
                            !.g = Add(@, Mul(Mul(Two, c),
                                             Sub(One, Div(FromInt(t), FromInt(n))))),
                            !.t = t + 1]
           ELSE call' = [call EXCEPT !.pc = "clamp"]
    /\ UNCHANGED <<solver, dataset, life, gen, boot>>

\* if g < 1.0 { 1.0 } else { g }
IneffReturn ==
    /\ call.fn = "statistical_ineff"
    /\ call.pc = "clamp"
    /\ call' = [call EXCEPT !.ret = IF Lt(call.g, One) THEN One ELSE call.g, !.pc = "ret"]
    /\ UNCHANGED <<solver, dataset, life, gen, boot>>

IneffNext ==
    \/ IneffAutocorr
    \/ IneffLoop
    \/ IneffReturn

SpecIneff == IneffInit /\ [][IneffNext]_vars

(***************************************************************************)
(* Claims about statistical_ineff                                          *)
(***************************************************************************)
IneffEnded == call.fn = "statistical_ineff" /\ call.pc \in {"ret", "panic"}

IsConstant(v) == \A i \in DOMAIN v : \A j \in DOMAIN v : v[i] = v[j]

\* C14: statistical_ineff returns a value g >= 1 for every time series, of any
\* length and also a constant one: never NaN and never a value below 1.
C14_IneffAtLeastOne ==
    IneffEnded => (call.pc = "ret" /\ Ge(call.ret, One))

\* C15: statistical_ineff returns exactly 1, without failing, for every time
\* series of length 0, 1 or 2 and for every constant time series.
C15_IneffShortSeriesIsOne ==
    (IneffEnded /\ (VLen(call.timeseries) < 3 \/ IsConstant(call.timeseries)))
        => (call.pc = "ret" /\ call.ret = One)

(***************************************************************************)
(* get_convdt_boundaries (src/src/io.rs)                                   *)
(***************************************************************************)
\* usize::MAX for the casts of this model
UsizeMax == 65535

\* f64::ceil and f64::floor of a finite value, as integers
CeilInt(x) == IF x.e >= 0 THEN x.m * Pow2(x.e) ELSE -((-x.m) \div Pow2(-x.e))
FloorInt(x) == IF x.e >= 0 THEN x.m * Pow2(x.e) ELSE x.m \div Pow2(-x.e)

\* f64::ceil
Ceil(x) == IF IsFinite(x) THEN FromInt(CeilInt(x)) ELSE x

\* x as usize: NaN is 0, the value saturates at 0 and at usize::MAX
AsUsize(x) ==
    CASE IsNaN(x) -> 0
      [] IsInf(x) -> IF x.m > 0 THEN UsizeMax ELSE 0
      [] OTHER ->
            LET n == IF x.m < 0 THEN 0 ELSE FloorInt(x)
            IN  IF n > UsizeMax THEN UsizeMax ELSE n

\* the times of the model: convdt is 0 or has a full mantissa in [1/2, 2),
\* end is a multiple of 2^-(MantBits-2) below 4
ConvdtValues ==
    {Zero} \cup { Round(m, -(MantBits - 1)) : m \in Pow2(MantBits - 2) .. (Pow2(MantBits) - 1) }
EndValues == { Round(m, -(MantBits - 2)) : m \in 1 .. (Pow2(MantBits) - 1) }
StartValues == {Zero, One}

\* the number of intervals for convdt != 0
NumIntervals(start, end, convdt) == AsUsize(Ceil(Div(Sub(end, start), convdt)))

\* the upper bound of interval i = 1, 2, ...
IntervalEnd(i, start, end, convdt) ==
    LET interval_end == Add(Mul(FromInt(i), convdt), start)
    IN  IF Gt(interval_end, end) THEN end ELSE interval_end

\* get_convdt_boundaries(start, end, convdt) is called
ConvdtInit ==
    \E start \in StartValues, end \in EndValues, convdt \in ConvdtValues :
        /\ InputStage
        /\ call = [fn |-> "get_convdt_boundaries", start |-> start, end |-> end,
                   convdt |-> convdt, pc |-> "call", intervals |-> 0, ret |-> <<>>]

\* convdt == 0.0: the one interval (start, end)
ConvdtSingle ==
    /\ call.fn = "get_convdt_boundaries"
    /\ call.pc = "call"
    /\ FEq(call.convdt, Zero)
    /\ call' = [call EXCEPT !.ret = V1(<<call.start, call.end>>), !.intervals = 1, !.pc = "ret"]
    /\ UNCHANGED <<solver, dataset, life, gen, boot>>

\* let intervals: usize = ((end - start) / convdt).ceil() as usize
ConvdtCount ==
    /\ call.fn = "get_convdt_boundaries"
    /\ call.pc = "call"
    /\ ~FEq(call.convdt, Zero)
    /\ call' = [call EXCEPT !.intervals = NumIntervals(call.start, call.end, call.convdt),
                            !.pc = "map"]
    /\ UNCHANGED <<solver, dataset, life, gen, boot>>

\* one element of (1..intervals+1).map(..)
ConvdtMap ==
    /\ call.fn = "get_convdt_boundaries"
    /\ call.pc = "map"
    /\ VLen(call.ret) < call.intervals
    /\ LET i == VLen(call.ret) + 1
       IN  call' = [call EXCEPT !.ret = Push(@, <<call.start,
                                    IntervalEnd(i, call.start, call.end, call.convdt)>>)]
    /\ UNCHANGED <<solver, dataset, life, gen, boot>>

\* collect()
ConvdtReturn ==
    /\ call.fn = "get_convdt_boundaries"
    /\ call.pc = "map"
    /\ VLen(call.ret) = call.intervals
    /\ call' = [call EXCEPT !.pc = "ret"]
    /\ UNCHANGED <<solver, dataset, life, gen, boot>>

ConvdtNext ==
    \/ ConvdtSingle
    \/ ConvdtCount
    \/ ConvdtMap
    \/ ConvdtReturn

SpecConvdt == ConvdtInit /\ [][ConvdtNext]_vars

(***************************************************************************)
(* Claims about get_convdt_boundaries                                      *)
(***************************************************************************)
\* C16: for convdt = 0 the result is the one interval (start, end); for
\* convdt > 0 and start < end it has ceil((end - start) / convdt) intervals,
\* everyone begins at start, the k-th ends at min(start + k*convdt, end), the
\* upper bounds increase strictly and the last one is end.
C16_ConvdtBoundaries ==
    (call.fn = "get_convdt_boundaries" /\ call.pc = "ret") =>
        LET ret == call.ret
            n == VLen(ret)
        IN  /\ FEq(call.convdt, Zero) => ret = V1(<<call.start, call.end>>)
            /\ (Gt(call.convdt, Zero) /\ Lt(call.start, call.end)) =>
                /\ n = CeilInt(Div(Sub(call.end, call.start), call.convdt))
                /\ \A k \in DOMAIN ret :
                    /\ ret[k][1] = call.start
                    /\ ret[k][2] = IntervalEnd(k + 1, call.start, call.end, call.convdt)
                /\ \A k \in DOMAIN ret : k + 1 < n => Lt(ret[k][2], ret[k + 1][2])
                /\ n >= 1 /\ ret[n - 1][2] = call.end

(***************************************************************************)
(* read_data (src/src/io.rs): one reaction coordinate, the window files    *)
(* given as their parsed rows                                              *)
(***************************************************************************)
\* the largest number of samples of a window file
MaxSamples == 4

\* static k_B: f64 = 0.0083144621
K_B == Round(68, -13)

IsInTimeBoundaries(time, start, end) == Le(start, time) /\ Le(time, end)

IsInHistBoundaries(values, c) ==
    \A dimen \in Idx(c.dimens) :
        ~(Lt(values[dimen], c.hist_min[dimen]) \/ Ge(values[dimen], c.hist_max[dimen]))

\* filter_map: the elements of v whose mask entry is true, among the first k
RECURSIVE FilterTo(_, _, _)
FilterTo(v, mask, k) ==
    IF k = 0 THEN <<>>
    ELSE IF mask[k - 1] THEN Push(FilterTo(v, mask, k - 1), v[k - 1])
         ELSE FilterTo(v, mask, k - 1)

Filter(v, mask) == FilterTo(v, mask, VLen(v))

\* into_iter().step_by(step)
StepBy(v, step) == [i \in Idx((VLen(v) + step - 1) \div step) |-> v[i * step]]

\* sum of idx * product of the lower lengths
RECURSIVE FlatIndexTo(_, _, _)
FlatIndexTo(indeces, lengths, k) ==
    IF k = 0 THEN 0
    ELSE FlatIndexTo(indeces, lengths, k - 1) + indeces[k - 1] * ProdTake(lengths, k - 1)

FlatIndexMut(indeces, lengths) ==
    FlatIndexTo(indeces, [i \in DOMAIN lengths |-> lengths[VLen(lengths) - 1 - i]], VLen(indeces))

FlatIndex(indeces, lengths) == FlatIndexTo(indeces, lengths, VLen(indeces))

SampleBinMut(timeseries, mask, c, i) ==
    LET values == [j \in Idx(c.dimens) |-> timeseries[j + 1][i]]
        bin_width == [idx \in Idx(c.dimens) |->
                         Div(Sub(c.hist_max[idx], c.hist_min[idx]), FromInt(c.num_bins[idx]))]
    IN  IF IsInHistBoundaries(values, c)
        THEN FlatIndex([dimen \in Idx(c.dimens) |->
                           AsUsize(Div(Sub(values[dimen], c.hist_min[dimen]), bin_width[dimen]))],
                       c.num_bins)
        ELSE -1

\* the bin of sample i, or -1 for a sample that is masked out or outside the
\* histogram boundaries
SampleBin(timeseries, mask, c, i) ==
    LET values == [j \in Idx(c.dimens) |-> timeseries[j + 1][i]]
        bin_width == [idx \in Idx(c.dimens) |->
                         Div(Sub(c.hist_max[idx], c.hist_min[idx]), FromInt(c.num_bins[idx]))]
    IN  IF mask[i] /\ IsInHistBoundaries(values, c)
        THEN FlatIndex([dimen \in Idx(c.dimens) |->
                           AsUsize(Div(Sub(values[dimen], c.hist_min[dimen]), bin_width[dimen]))],
                       c.num_bins)
        ELSE -1

\* hist[index] += 1.0 for every sample, then num_points = sum(hist)
BuildHistogramFromTimeseries(timeseries, mask, c) ==
    LET total_bins == ProdTake(c.num_bins, VLen(c.num_bins))
        hist == [bin \in Idx(total_bins) |->
                    FromInt(Cardinality({i \in DOMAIN timeseries[0] :
                                            SampleBin(timeseries, mask, c, i) = bin}))]
    IN  Histogram(AsUsize(FSum(hist)), hist)

\* statistical_ineff of a series of length n >= 1, as the loop computes it
RECURSIVE IneffFrom(_, _, _, _)
IneffFrom(autocorr, n, t, g) ==
    IF t < n - 1 /\ ~Le(autocorr[t - 1], Zero)
    THEN IneffFrom(autocorr, n, t + 1,
                   Add(g, Mul(Mul(Two, autocorr[t - 1]), Sub(One, Div(FromInt(t), FromInt(n))))))
    ELSE g

\* if g < 1.0 { 1.0 } else { g }
AtLeastOne(g) == IF Lt(g, One) THEN One ELSE g

StatisticalIneff(timeseries) ==
    AtLeastOne(IneffFrom(Autocorrelation(timeseries), VLen(timeseries), 1, One))

\* if g > max_g { max_g = g }
UpdateMaxG(g, max_g) == IF Gt(g, max_g) THEN g ELSE max_g

\* max_g of uncorrelate after the first k coordinate columns
RECURSIVE MaxG(_, _)
MaxG(timeseries, k) ==
    IF k = 0 THEN One
    ELSE UpdateMaxG(StatisticalIneff(timeseries[k]), MaxG(timeseries, k - 1))

\* if (trunc_g as f64 - max_g).abs() > 0.000_000_000_1 { trunc_g += 1 }
RoundUp(trunc_g, max_g) ==
    IF Gt(FAbs(Sub(FromInt(trunc_g), max_g)), Round(1, -33)) THEN trunc_g + 1 ELSE trunc_g

\* the stride of uncorrelate: max_g rounded up
Stride(max_g) == RoundUp(AsUsize(max_g), max_g)

\* ts.into_iter().step_by(trunc_g) for every column
StepAll(timeseries, trunc_g) ==
    [j \in DOMAIN timeseries |-> StepBy(timeseries[j], trunc_g)]

\* uncorrelate of a time series with at least one sample
Uncorrelate(timeseries) ==
    StepAll(timeseries, Stride(MaxG(timeseries, VLen(timeseries) - 1)))

\* read_window_file on the parsed columns of the file: the status and the
\* time series. With uncorr an empty filtered series reaches
\* statistical_ineff, which panics on it, and the verbose report of
\* uncorrelate indexes timeseries[0][1], which panics on a thinned series of
\* one sample.
FilterAll(file, time_series_mask) ==
    [j \in DOMAIN file |-> Filter(file[j], time_series_mask)]

\* the part of read_window_file after uncorrelate
ReadWindowEnd(timeseries, c) ==
    IF c.uncorr /\ c.verbose /\ VLen(timeseries[0]) < 2
    THEN [status |-> "panic", timeseries |-> timeseries]
    ELSE IF VLen(timeseries[0]) = 0 /\ ~c.ignore_empty
    THEN [status |-> "err", timeseries |-> timeseries]
    ELSE [status |-> "ok", timeseries |-> timeseries]

\* the part of read_window_file after the filter by start..end
ReadWindowFiltered(filtered, c) ==
    IF c.uncorr /\ VLen(filtered[0]) = 0
    THEN [status |-> "panic", timeseries |-> filtered]
    ELSE ReadWindowEnd(IF c.uncorr THEN Uncorrelate(filtered) ELSE filtered, c)

ReadWindowFile(file, c) ==
    ReadWindowFiltered(
        FilterAll(file, [i \in DOMAIN file[0] |-> IsInTimeBoundaries(file[0][i], c.start, c.end)]),
        c)

ConvdtBoundariesMut(start, end, convdt) ==
    IF FEq(convdt, Zero) THEN V1(<<start, end>>)
    ELSE [k \in Idx(NumIntervals(start, end, convdt)) |->
             <<IntervalEnd(k, start, end, convdt), IntervalEnd(k + 1, start, end, convdt)>>]

\* dataset_boundaries of read_data
ConvdtBoundaries(start, end, convdt) ==
    IF FEq(convdt, Zero) THEN V1(<<start, end>>)
    ELSE [k \in Idx(NumIntervals(start, end, convdt)) |->
             <<start, IntervalEnd(k + 1, start, end, convdt)>>]

\* the histogram of a time series for every interval
WindowHistograms(timeseries, dataset_boundaries, c) ==
    [idx \in DOMAIN dataset_boundaries |->
        BuildHistogramFromTimeseries(timeseries,
            [i \in DOMAIN timeseries[0] |->
                IsInTimeBoundaries(timeseries[0][i], dataset_boundaries[idx][1],
                                   dataset_boundaries[idx][2])],
            c)]

\* Dataset::new as read_data calls it for the histograms of one interval
ReadDataset(c, bias_pos, bias_fc, dataset_histograms) ==
    DatasetNew(ProdTake(c.num_bins, VLen(c.num_bins)), c.num_bins,
               [idx \in Idx(c.dimens) |->
                   Div(Sub(c.hist_max[idx], c.hist_min[idx]), FromInt(c.num_bins[idx]))],
               c.hist_min, c.hist_max, bias_pos, bias_fc, Mul(c.temperature, K_B),
               dataset_histograms, c.cyclic)

\* the windows of a dataset that have no data point
EmptyWindows(dataset_histograms) ==
    {w \in DOMAIN dataset_histograms : dataset_histograms[w].num_points = 0}

FirstOf(S) == CHOOSE x \in S : \A y \in S : x <= y

\* the end of read_data: the first failed window read, or the datasets
ReadDataResult(c, files, dataset_boundaries, reads, failed, histograms) ==
    IF failed # {} THEN [status |-> reads[FirstOf(failed)].status, datasets |-> <<>>]
    ELSE IF VLen(dataset_boundaries) = 0 THEN [status |-> "err", datasets |-> <<>>]
    ELSE IF EmptyWindows(histograms[VLen(dataset_boundaries) - 1]) # {} /\ ~c.ignore_empty
         THEN [status |-> "err", datasets |-> <<>>]
    ELSE IF VLen(files) = 0 THEN [status |-> "err", datasets |-> <<>>]
    ELSE [status |-> "ok",
          datasets |-> [idx \in DOMAIN dataset_boundaries |->
                           ReadDataset(c, [w \in DOMAIN files |-> files[w].bias_pos],
                                       [w \in DOMAIN files |-> files[w].bias_fc],
                                       histograms[idx])]]

\* read_data after every window file has been read
ReadDataFrom(c, files, dataset_boundaries, reads) ==
    ReadDataResult(c, files, dataset_boundaries, reads,
                   {w \in DOMAIN files : reads[w].status # "ok"},
                   [idx \in DOMAIN dataset_boundaries |->
                       [w \in DOMAIN files |->
                           WindowHistograms(reads[w].timeseries, dataset_boundaries, c)[idx]]])

\* read_data as a function of the configuration and the window files
ReadData(c, files) ==
    ReadDataFrom(c, files, ConvdtBoundaries(c.start, c.end, c.convdt),
                 [w \in DOMAIN files |-> ReadWindowFile(files[w].columns, c)])

\* the rows of a window file: n samples at the times t0, t0 + 1, ...
WindowColumns(t0, coords) ==
    V2([i \in DOMAIN coords |-> FromInt(t0 + i)], coords)

CoordValues == {One, FromInt(5)}

\* the first window: any series of up to MaxSamples samples, in bin 0 or
\* outside the histogram boundaries, from time 0 or from time 2, and one
\* series that begins after cfg.end
FirstWindows ==
    { [bias_pos |-> One, bias_fc |-> FromInt(8), columns |-> WindowColumns(t0, coords)] :
        t0 \in {0, 2}, coords \in UNION { [Idx(n) -> CoordValues] : n \in 0 .. MaxSamples } }
    \cup { [bias_pos |-> One, bias_fc |-> FromInt(8), columns |-> WindowColumns(4, V2(One, One))] }

\* the second window: samples in both bins, from time 0 or from time 2
SecondWindows ==
    { [bias_pos |-> FromInt(3), bias_fc |-> FromInt(8),
       columns |-> WindowColumns(0, [i \in Idx(4) |-> IF i < 2 THEN FromInt(3) ELSE One])],
      [bias_pos |-> FromInt(3), bias_fc |-> FromInt(8),
       columns |-> WindowColumns(2, V2(FromInt(3), One))] }

\* the metadata files: two windows, or no window at all
MetadataFiles == {<<>>} \cup { V2(f0, f1) : f0 \in FirstWindows, f1 \in SecondWindows }

\* verbose is read by uncorrelate only, so it is varied with uncorr
ReadConfigs ==
    { c \in [start : {Zero}, end : {FromInt(3)}, convdt : {Zero, One, FromInt(2)},
             ignore_empty : BOOLEAN, uncorr : BOOLEAN, verbose : BOOLEAN, dimens : {1},
             num_bins : {V1(2)}, hist_min : {V1(Zero)}, hist_max : {V1(FromInt(4))},
             temperature : {FromInt(300)}, cyclic : {FALSE}] :
        c.verbose => c.uncorr }

\* a line of the metadata file: a comment ("#"), an empty line (""), a good
\* record, a record with fewer than 1 + 2*dimens columns, with an unparseable
\* bias position or force constant, or one that names a window file that is
\* missing or has an unparseable first line
LineKinds == {"#", "", "record", "short", "badpos", "badfc", "missing", "unparseable"}

\* the metadata file whose lines are the records of the given window files
PlainMetadata(files) == [i \in DOMAIN files |-> "record"]

\* the window file of every good record of a metadata file
RecordFiles(metadata) ==
    [i \in Idx(Cardinality({l \in DOMAIN metadata : metadata[l] = "record"})) |->
        [bias_pos |-> FromInt(3), bias_fc |-> FromInt(8),
         columns |-> WindowColumns(0, [s \in Idx(4) |-> IF s < 2 THEN FromInt(3) ELSE One])]]

\* the inputs of read_data: every configuration with every pair of window
\* files, and the metadata files of three lines of any kind, read without
\* uncorr
ReadInputs ==
    { [cfg |-> c, metadata |-> PlainMetadata(files), files |-> files] :
        c \in ReadConfigs, files \in MetadataFiles }
    \cup { [cfg |-> c, metadata |-> metadata, files |-> RecordFiles(metadata)] :
            c \in {x \in ReadConfigs : ~x.uncorr}, metadata \in [Idx(3) -> LineKinds] }

NoError == [what |-> "none", of |-> "none", line |-> 0]

\* read_data(&cfg) is called
ReadDataInit ==
    \E in \in ReadInputs :
        /\ InputStage
        /\ call = [fn |-> "read_data", cfg |-> in.cfg, metadata |-> in.metadata,
                   files |-> in.files, pc |-> "boundaries",
                   dataset_boundaries |-> <<>>, bias_pos |-> <<>>, bias_fc |-> <<>>,
                   histograms |-> <<>>, line_num |-> 0, line |-> 0, datasets |-> <<>>,
                   warnings |-> {}, status |-> "running", error |-> NoError]

\* let dataset_boundaries = get_convdt_boundaries(..);
\* let mut histograms = vec![Vec::new(); dataset_boundaries.len()];
ReadBoundaries ==
    /\ call.fn = "read_data"
    /\ call.pc = "boundaries"
    /\ LET b == ConvdtBoundaries(call.cfg.start, call.cfg.end, call.cfg.convdt)
       IN  call' = [call EXCEPT !.dataset_boundaries = b,
                                !.histograms = Fill(<<>>, VLen(b)),
                                !.pc = "lines"]
    /\ UNCHANGED <<solver, dataset, life, gen, boot>>

\* histograms[idx].push(hist) for every interval
PushHistograms(histograms, hists) ==
    [idx \in DOMAIN histograms |-> Push(histograms[idx], hists[idx])]

\* the state of read_data after the window file of a line is read: the `?`
\* returns the error, else the bias and the histograms are pushed
AfterWindow(rd, file, read) ==
    IF read.status = "panic" THEN [rd EXCEPT !.pc = "panic", !.status = "panic"]
    ELSE IF read.status = "err" THEN [rd EXCEPT !.pc = "ret", !.status = "err"]
    ELSE [rd EXCEPT !.bias_pos = Push(@, file.bias_pos),
                    !.bias_fc = Push(@, file.bias_fc),
                    !.histograms = PushHistograms(@,
                        WindowHistograms(read.timeseries, rd.dataset_boundaries, rd.cfg)),
                    !.line = @ + 1,
                    !.line_num = @ + 1]

\* the error of a bad record in line line_num (0-based) of the metadata file:
\* the messages of the column check and of the bias parse name line_num+1, the
\* message for a window file that cannot be opened names the path only, and
\* the message for an unparseable line names the line of the window file
RecordError(kind, line_num) ==
    CASE kind = "short" -> [what |-> "columns", of |-> "metadata file", line |-> line_num + 1]
      [] kind = "badpos" -> [what |-> "bias position", of |-> "metadata file", line |-> line_num + 1]
      [] kind = "badfc" -> [what |-> "bias fc", of |-> "metadata file", line |-> line_num + 1]
      [] kind = "missing" -> [what |-> "open", of |-> "none", line |-> 0]
      [] kind = "unparseable" -> [what |-> "parse", of |-> "window file", line |-> 1]

\* one line of the metadata file: the bias, the time series of the window and
\* its histogram for every interval
ReadLine ==
    /\ call.fn = "read_data"
    /\ call.pc = "lines"
    /\ call.line_num < VLen(call.metadata)
    /\ call.metadata[call.line_num] = "record"
    /\ call' = AfterWindow(call, call.files[call.line],
                           ReadWindowFile(call.files[call.line].columns, call.cfg))
    /\ UNCHANGED <<solver, dataset, life, gen, boot>>

\* if line.starts_with('#') || line.is_empty() { continue; }
ReadSkip ==
    /\ call.fn = "read_data"
    /\ call.pc = "lines"
    /\ call.line_num < VLen(call.metadata)
    /\ call.metadata[call.line_num] \in {"#", ""}
    /\ call' = [call EXCEPT !.line_num = @ + 1]
    /\ UNCHANGED <<solver, dataset, life, gen, boot>>

\* a bad record: bail!, or the `?` of a failed parse or a failed
\* read_window_file
ReadBadRecord ==
    /\ call.fn = "read_data"
    /\ call.pc = "lines"
    /\ call.line_num < VLen(call.metadata)
    /\ call.metadata[call.line_num] \notin {"#", "", "record"}
    /\ call' = [call EXCEPT !.pc = "ret", !.status = "err",
                            !.error = RecordError(call.metadata[call.line_num], call.line_num)]
    /\ UNCHANGED <<solver, dataset, life, gen, boot>>

\* the end of the metadata file
ReadLinesDone ==
    /\ call.fn = "read_data"
    /\ call.pc = "lines"
    /\ call.line_num = VLen(call.metadata)
    /\ call' = [call EXCEPT !.pc = "datasets"]
    /\ UNCHANGED <<solver, dataset, life, gen, boot>>

\* one dataset: an empty histogram is an error for the final dataset unless
\* ignore_empty is set, and a warning otherwise
ReadCreate ==
    /\ call.fn = "read_data"
    /\ call.pc = "datasets"
    /\ VLen(call.datasets) < VLen(call.dataset_boundaries)
    /\ LET dataset_idx == VLen(call.datasets)
           dataset_histograms == call.histograms[dataset_idx]
           empty == EmptyWindows(dataset_histograms)
       IN  call' = IF /\ empty # {}
                      /\ dataset_idx + 1 = VLen(call.dataset_boundaries)
                      /\ ~call.cfg.ignore_empty
                   THEN [call EXCEPT !.pc = "ret", !.status = "err"]
                   ELSE [call EXCEPT !.datasets = Push(@, ReadDataset(call.cfg, call.bias_pos,
                                                          call.bias_fc, dataset_histograms)),
                                     !.warnings = @ \cup {<<dataset_idx, w>> : w \in empty}]
    /\ UNCHANGED <<solver, dataset, life, gen, boot>>

\* the checks after the datasets are collected
ReadReturn ==
    /\ call.fn = "read_data"
    /\ call.pc = "datasets"
    /\ VLen(call.datasets) = VLen(call.dataset_boundaries)
    /\ call' = [call EXCEPT !.pc = "ret",
                            !.status = IF VLen(call.datasets) = 0 THEN "err"
                                       ELSE IF VLen(call.datasets[0].histograms) = 0 THEN "err"
                                       ELSE "ok"]
    /\ UNCHANGED <<solver, dataset, life, gen, boot>>

ReadDataNext ==
    \/ ReadBoundaries
    \/ ReadLine
    \/ ReadSkip
    \/ ReadBadRecord
    \/ ReadLinesDone
    \/ ReadCreate
    \/ ReadReturn

SpecReadData == ReadDataInit /\ [][ReadDataNext]_vars

\* the state machine returns what the function ReadData gives
ReadDataAgrees ==
    (call.fn = "read_data" /\ call.pc \in {"ret", "panic"} /\ call.error = NoError) =>
        LET r == ReadData(call.cfg, call.files)
        IN  /\ r.status = call.status
            /\ r.status = "ok" => r.datasets = call.datasets

(***************************************************************************)
(* Claims about read_data                                                  *)
(***************************************************************************)
ReadOk == call.fn = "read_data" /\ call.pc = "ret" /\ call.status = "ok"

RECURSIVE SumIntsTo(_, _)
SumIntsTo(v, k) == IF k = 0 THEN 0 ELSE SumIntsTo(v, k - 1) + v[k - 1]

SumInts(v) == SumIntsTo(v, VLen(v))

\* sum of num_points over the windows of a dataset
TotalPoints(ds) == SumInts([w \in DOMAIN ds.histograms |-> ds.histograms[w].num_points])

\* C17: in the datasets read_data returns for convdt > 0, the total number
\* of data points of dataset k, the num_points of every window and the count
\* of every bin of every window are nondecreasing in k.
C17_ConvdtMonotone ==
    (ReadOk /\ Gt(call.cfg.convdt, Zero)) =>
        \A k \in DOMAIN call.datasets :
            (k + 1 \in DOMAIN call.datasets) =>
                LET ds == call.datasets[k]
                    next == call.datasets[k + 1]
                IN  /\ TotalPoints(ds) <= TotalPoints(next)
                    /\ \A w \in DOMAIN ds.histograms :
                        /\ ds.histograms[w].num_points <= next.histograms[w].num_points
                        /\ \A bin \in DOMAIN ds.histograms[w].bins :
                               Le(ds.histograms[w].bins[bin], next.histograms[w].bins[bin])

\* three datasets, every one with more points than the one before
C17_Witness ==
    /\ ReadOk
    /\ Gt(call.cfg.convdt, Zero)
    /\ VLen(call.datasets) = 3
    /\ TotalPoints(call.datasets[0]) < TotalPoints(call.datasets[1])
    /\ TotalPoints(call.datasets[1]) < TotalPoints(call.datasets[2])
    /\ call.datasets[0].histograms[0].num_points < call.datasets[2].histograms[0].num_points

\* the run with convdt = 0 and end set to the upper bound of interval k
SingleRun(k) ==
    ReadData([call.cfg EXCEPT !.convdt = Zero, !.end = call.dataset_boundaries[k][2]],
             call.files)

\* C18 as stated: for every k the k-th dataset of a run with convdt > 0 is
\* the single dataset of the run with convdt = 0 and end set to the upper
\* bound of interval k (the same histograms, hence the same solver input).
C18_ConvdtEquivalence ==
    (ReadOk /\ Gt(call.cfg.convdt, Zero)) =>
        \A k \in DOMAIN call.datasets :
            /\ SingleRun(k).status = "ok"
            /\ SingleRun(k).datasets = V1(call.datasets[k])

\* C18 amended: without uncorr, the k-th dataset of a run with convdt > 0
\* is the single dataset of the run with convdt = 0 and end set to the upper
\* bound of interval k whenever ignore_empty is set or no window histogram of
\* dataset k is empty; otherwise that single run returns an error.
C18_ConvdtEquivalenceAmended ==
    (ReadOk /\ Gt(call.cfg.convdt, Zero) /\ ~call.cfg.uncorr) =>
        \A k \in DOMAIN call.datasets :
            IF call.cfg.ignore_empty \/ EmptyWindows(call.datasets[k].histograms) = {}
            THEN /\ SingleRun(k).status = "ok"
                 /\ SingleRun(k).datasets = V1(call.datasets[k])
            ELSE SingleRun(k).status = "err"

\* three datasets without uncorr, the first with data in every window and
\* with fewer points than the last
C18_Witness ==
    /\ ReadOk
    /\ Gt(call.cfg.convdt, Zero)
    /\ ~call.cfg.uncorr
    /\ VLen(call.datasets) = 3
    /\ EmptyWindows(call.datasets[0].histograms) = {}
    /\ TotalPoints(call.datasets[0]) < TotalPoints(call.datasets[2])
    /\ SingleRun(0).datasets = V1(call.datasets[0])

\* the time series of window w as the histograms are built from it: filtered
\* by start..end and, with uncorr, thinned when there is a sample to thin
WindowSeries(w) ==
    LET file == call.files[w].columns
        filtered == FilterAll(file, [i \in DOMAIN file[0] |->
                        IsInTimeBoundaries(file[0][i], call.cfg.start, call.cfg.end)])
    IN  IF call.cfg.uncorr /\ VLen(filtered[0]) > 0 THEN Uncorrelate(filtered) ELSE filtered

\* the windows whose histogram for interval k has no data point
EmptyIn(k) ==
    {w \in DOMAIN call.files :
        WindowHistograms(WindowSeries(w), call.dataset_boundaries, call.cfg)[k].num_points = 0}

\* C19: a window histogram without data points in a non-final dataset only
\* gives a warning and the dataset is created; one in the final dataset makes
\* read_data return an error unless ignore_empty is set, and then read_data
\* succeeds.
C19_EmptyHistogramHandling ==
    (call.fn = "read_data" /\ call.pc \in {"ret", "panic"} /\ VLen(call.files) > 0) =>
        LET num_datasets == VLen(call.dataset_boundaries)
            final == EmptyIn(num_datasets - 1)
        IN  /\ (final # {} /\ ~call.cfg.ignore_empty) => call.status = "err"
            /\ (final # {} /\ call.cfg.ignore_empty) => call.status = "ok"
            /\ \A k \in 0 .. (num_datasets - 2) :
                   (EmptyIn(k) # {} /\ (final = {} \/ call.cfg.ignore_empty)) =>
                       /\ call.status = "ok"
                       /\ VLen(call.datasets) = num_datasets
                       /\ \A w \in EmptyIn(k) : <<k, w>> \in call.warnings

(***************************************************************************)
(* cli (src/src/main.rs): the histogram arguments and the validation       *)
(***************************************************************************)
\* the largest number of comma-separated values of one argument
MaxDimens == 2

\* std::f64::consts::PI
PI == Round(3217, -10)

\* the values of --min_hist, --max_hist and --bins between the commas
MinTokens == {"0", "-PI", "x"}
MaxTokens == {"4", "pi"}
BinTokens == {"2", "x"}

ArgLists(tokens) == UNION { [Idx(n) -> tokens] : n \in 1 .. MaxDimens }

ToAsciiLowercase(x) ==
    CASE x = "-PI" -> "-pi"
      [] x = "PI" -> "pi"
      [] OTHER -> x

\* str::parse::<f64>: the value, or NaN's place taken by "err"
ParseF64(x) ==
    CASE x = "0" -> [ok |-> TRUE, val |-> Zero]
      [] x = "4" -> [ok |-> TRUE, val |-> FromInt(4)]
      [] x = "2" -> [ok |-> TRUE, val |-> FromInt(2)]
      [] OTHER -> [ok |-> FALSE, val |-> Zero]

\* str::parse::<usize>
ParseUsize(x) ==
    CASE x = "0" -> [ok |-> TRUE, val |-> 0]
      [] x = "4" -> [ok |-> TRUE, val |-> 4]
      [] x = "2" -> [ok |-> TRUE, val |-> 2]
      [] OTHER -> [ok |-> FALSE, val |-> 0]

\* one value of --min_hist or --max_hist
ParseHist(x) ==
    IF ToAsciiLowercase(x) = "pi" THEN [ok |-> TRUE, val |-> PI]
    ELSE IF ToAsciiLowercase(x) = "-pi" THEN [ok |-> TRUE, val |-> Neg(PI)]
    ELSE ParseF64(x)

\* cli() is called with the three arguments
CliInit ==
    \E min_hist \in ArgLists(MinTokens), max_hist \in ArgLists(MaxTokens),
       bins \in ArgLists(BinTokens) :
        /\ InputStage
        /\ call = [fn |-> "cli", min_hist |-> min_hist, max_hist |-> max_hist, bins |-> bins,
                   pc |-> "hist_min", hist_min |-> <<>>, hist_max |-> <<>>, num_bins |-> <<>>,
                   dimens |-> 0, status |-> "running"]

\* let hist_min: Vec<f64> = ...; x.parse().unwrap() panics on a bad value
CliHistMin ==
    /\ call.fn = "cli"
    /\ call.pc = "hist_min"
    /\ call' = IF \E i \in DOMAIN call.min_hist : ~ParseHist(call.min_hist[i]).ok
               THEN [call EXCEPT !.pc = "end", !.status = "panic"]
               ELSE [call EXCEPT !.pc = "hist_max",
                                 !.hist_min = [i \in DOMAIN call.min_hist |->
                                                  ParseHist(call.min_hist[i]).val]]
    /\ UNCHANGED <<solver, dataset, life, gen, boot>>

\* let hist_max: Vec<f64> = ...
CliHistMax ==
    /\ call.fn = "cli"
    /\ call.pc = "hist_max"
    /\ call' = IF \E i \in DOMAIN call.max_hist : ~ParseHist(call.max_hist[i]).ok
               THEN [call EXCEPT !.pc = "end", !.status = "panic"]
               ELSE [call EXCEPT !.pc = "num_bins",
                                 !.hist_max = [i \in DOMAIN call.max_hist |->
                                                  ParseHist(call.max_hist[i]).val]]
    /\ UNCHANGED <<solver, dataset, life, gen, boot>>

\* let num_bins: Vec<usize> = ...
CliNumBins ==
    /\ call.fn = "cli"
    /\ call.pc = "num_bins"
    /\ call' = IF \E i \in DOMAIN call.bins : ~ParseUsize(call.bins[i]).ok
               THEN [call EXCEPT !.pc = "end", !.status = "panic"]
               ELSE [call EXCEPT !.pc = "validate",
                                 !.num_bins = [i \in DOMAIN call.bins |->
                                                  ParseUsize(call.bins[i]).val]]
    /\ UNCHANGED <<solver, dataset, life, gen, boot>>

\* if num_bins.len() != hist_max.len() || num_bins.len() != hist_max.len()
DimensionsMismatch(c) ==
    VLen(c.num_bins) # VLen(c.hist_max) \/ VLen(c.num_bins) # VLen(c.hist_max)

\* process::exit(1) on a mismatch
CliExit ==
    /\ call.fn = "cli"
    /\ call.pc = "validate"
    /\ DimensionsMismatch(call)
    /\ call' = [call EXCEPT !.pc = "end", !.status = "exit"]
    /\ UNCHANGED <<solver, dataset, life, gen, boot>>

\* let dimens = num_bins.len(); Ok(wham::Config{..})
CliConfig ==
    /\ call.fn = "cli"
    /\ call.pc = "validate"
    /\ ~DimensionsMismatch(call)
    /\ call' = [call EXCEPT !.pc = "end", !.status = "ok", !.dimens = VLen(call.num_bins)]
    /\ UNCHANGED <<solver, dataset, life, gen, boot>>

CliNext ==
    \/ CliHistMin
    \/ CliHistMax
    \/ CliNumBins
    \/ CliExit
    \/ CliConfig

SpecCli == CliInit /\ [][CliNext]_vars

(***************************************************************************)
(* Claims about cli                                                        *)
(***************************************************************************)
\* C20: whenever the lengths of hist_min, hist_max and num_bins are not all
\* equal, cli ends fatally and produces no Config, also when only hist_min
\* has a length different from the other two.
C20_DimensionMismatchFatal ==
    (call.fn = "cli" /\ call.pc = "end") =>
        (~(VLen(call.min_hist) = VLen(call.max_hist) /\ VLen(call.max_hist) = VLen(call.bins))
            => call.status # "ok")

\* C21: a bad record of the metadata file (too few columns, an unparseable
\* bias position or force constant, a missing or unparseable window file)
\* makes read_data return an error that names the 1-based physical number of
\* the offending line, and no datasets; comment lines and empty lines are
\* skipped without error.
C21_BadRecordFailsFast ==
    (call.fn = "read_data" /\ call.pc = "ret" /\ call.line_num < VLen(call.metadata)) =>
        LET kind == call.metadata[call.line_num]
        IN  /\ kind \notin {"#", ""}
            /\ kind # "record" =>
                /\ call.status = "err"
                /\ call.datasets = <<>>
                /\ call.error.of \in {"metadata file", "window file"}
                /\ call.error.line = IF call.error.of = "window file" THEN 1
                                     ELSE call.line_num + 1

(***************************************************************************)
(* flat_index (src/src/io.rs) and Dataset::expand_index                    *)
(* (src/src/histogram.rs) on the same grid                                 *)
(***************************************************************************)
\* the largest number of bins of one dimension
MaxLength == 3

\* the grids of 1 .. MaxDimens+1 dimensions
GridLengths == UNION { [Idx(n) -> 1 .. MaxLength] : n \in 1 .. (MaxDimens + 1) }

\* the multi-indices of a grid
GridIndeces(lengths) ==
    { ix \in [DOMAIN lengths -> 0 .. (MaxLength - 1)] : \A d \in DOMAIN lengths : ix[d] < lengths[d] }

\* a multi-index is flattened and expanded again, or a bin is expanded and
\* flattened again
IndexInit ==
    \E lengths \in GridLengths :
        /\ InputStage
        /\ \/ \E ix \in GridIndeces(lengths) :
                call = [fn |-> "index", lengths |-> lengths, first |-> "flat",
                        todo |-> <<"flat", "expand">>,
                        input |-> ix, indeces |-> ix, bin |-> 0]
           \/ \E bin \in 0 .. (ProdTake(lengths, VLen(lengths)) - 1) :
                call = [fn |-> "index", lengths |-> lengths, first |-> "expand",
                        todo |-> <<"expand", "flat">>,
                        input |-> bin, indeces |-> <<>>, bin |-> bin]

\* flat_index(&indeces, &lengths)
IndexFlat ==
    /\ call.fn = "index"
    /\ call.todo # <<>>
    /\ Head(call.todo) = "flat"
    /\ call' = [call EXCEPT !.bin = FlatIndex(call.indeces, call.lengths), !.todo = Tail(@)]
    /\ UNCHANGED <<solver, dataset, life, gen, boot>>

\* self.expand_index(bin, &lengths)
IndexExpand ==
    /\ call.fn = "index"
    /\ call.todo # <<>>
    /\ Head(call.todo) = "expand"
    /\ call' = [call EXCEPT !.indeces = ExpandIndex(call.bin, call.lengths), !.todo = Tail(@)]
    /\ UNCHANGED <<solver, dataset, life, gen, boot>>

IndexNext ==
    \/ IndexFlat
    \/ IndexExpand

SpecIndex == IndexInit /\ [][IndexNext]_vars

\* sum_d i_d * prod_{k<d} L_k, written without flat_index
RECURSIVE WeightedSum(_, _, _)
WeightedSum(ix, lengths, d) ==
    IF d = VLen(ix) THEN 0
    ELSE ix[d] + lengths[d] * WeightedSum(ix, lengths, d + 1)

WhamStepP(ds, Fv) == [bin \in Idx(ds.num_bins) |-> CalcBinProbability(bin, ds, Fv)]

WhamStepF(ds, Pv) == [window \in Idx(ds.num_windows) |-> CalcWindowF(window, ds, Pv)]

\* the common weight of a uniformly re-weighted dataset: powers of two, 1/3
\* and 3/4
ScaleFactors == {Half, Round(1, -2), Div(One, FromInt(3)), Round(3, -2)}

\* the dataset with unit weights
UnitWeighted(ds) == NewWeighted(ds, Fill(One, ds.num_windows))

\* perform_wham is called with a unit-weight dataset; the same call on the
\* dataset re-weighted with the common weight s follows
ScaledInit ==
    \E c \in [max_iterations : {10, MaxIterations}, tolerance : Tolerances],
       a \in Counts, k \in {0, 1}, d \in Counts, s \in ScaleFactors :
        /\ WhamInit(c, GridDataset(Hist2(a, 0), Hist2(k, d), One, FromInt(3),
                                   FromInt(8), One, FALSE))
        /\ lastOp = "new"
        /\ given = V2(One, One)
        /\ reassigned = FALSE
        /\ gen = GenIdle
        /\ boot = BootIdle
        /\ call = [fn |-> "scaled", run |-> 1, s |-> s, first |-> <<>>]

\* perform_wham(cfg, &Dataset::new_weighted(dataset, vec![s; num_windows]))
ScaledAgain ==
    /\ call.fn = "scaled"
    /\ call.run = 1
    /\ pc = "done"
    /\ call' = [call EXCEPT !.run = 2,
                            !.first = [P |-> P, F |-> F, F_prev |-> F_prev,
                                       iteration |-> iteration, result |-> result]]
    /\ dataset' = NewWeighted(dataset, Fill(call.s, dataset.num_windows))
    /\ lastOp' = "new_weighted"
    /\ given' = Fill(call.s, dataset.num_windows)
    /\ P' = Fill(NaN, dataset.num_bins)
    /\ F' = Fill(One, dataset.num_windows)
    /\ F_prev' = Fill(NaN, dataset.num_windows)
    /\ F_tmp' = Fill(NaN, dataset.num_windows)
    /\ iteration' = 0
    /\ converged' = FALSE
    /\ result' = "none"
    /\ pWrites' = Fill(0, dataset.num_bins)
    /\ fWrites' = Fill(0, dataset.num_windows)
    /\ pc' = "while"
    /\ UNCHANGED <<cfg, free_energy, checks, reassigned, gen, boot>>

ScaledNext ==
    \/ LoopEnter
    \/ LoopExit
    \/ \E bin \in Bins : BinWorker(bin)
    \/ \E window \in Windows : WindowWorker(window)
    \/ IterationReturn
    \/ ConvergenceCheck
    \/ NoCheck
    \/ Normalize
    \/ Return
    \/ ScaledAgain

SpecScaled == ScaledInit /\ [][ScaledNext]_vars

\* a power of two: the scaling by it is exact
IsPowerOfTwo(x) == x.c = "fin" /\ x.m = Pow2(MantBits - 1)

\* equal, or both finite and within 4 units of the last place of b
Close(a, b) ==
    \/ a = b
    \/ /\ a.c = "fin"
       /\ b.c = "fin"
       /\ Le(FAbs(Sub(a, b)), Mul(FAbs(b), Round(1, -(MantBits - 3))))

CheckRan == F_tmp' # F_tmp \/ converged' # converged

\* C24: the convergence test runs only at iterations whose number is a
\* positive multiple of 10, convergence is declared at no other iteration, a
\* successful return follows an iteration count that is a positive multiple
\* of 10, and with max_iterations < 10 convergence is never reported.
C24_CheckEveryTenth ==
    /\ [](/\ converged => (iteration > 0 /\ iteration % 10 = 0)
          /\ (pc \in {"done", "end"} /\ result = "ok") =>
                 (converged /\ iteration > 0 /\ iteration % 10 = 0)
          /\ (cfg.max_iterations < 10) => (~converged /\ result # "ok"))
    /\ [][CheckRan => (pc = "check" /\ iteration > 0 /\ iteration % 10 = 0)]_vars

\* a successful return after the second check, the first one having failed
C24_Witness ==
    /\ pc = "done"
    /\ result = "ok"
    /\ iteration = 20
    /\ converged

(***************************************************************************)
(* is_converged (src/src/lib.rs) on its own                                *)
(***************************************************************************)
\* the values of -kT ln F the check can see: finite ones, the infinities of
\* F = 0 and F = inf, and NaN
OffsetValues == {Zero, One, Add(One, Round(1, -4)), Add(One, Round(1, -3)), Inf, NegInf, NaN}

\* is_converged(&old_F, &new_F, tolerance) is called
ConvergedInit ==
    \E n \in 1 .. 2 :
        \E old_F \in [Idx(n) -> OffsetValues], new_F \in [Idx(n) -> OffsetValues],
           tolerance \in {Zero, Round(1, -4)} :
            /\ InputStage
            /\ call = [fn |-> "is_converged", old_F |-> old_F, new_F |-> new_F,
                       tolerance |-> tolerance, pc |-> "call", ret |-> FALSE]

\* !new_F.iter().zip(old_F.iter()).map(..).any(|diff| diff > tolerance)
ConvergedReturn ==
    /\ call.fn = "is_converged"
    /\ call.pc = "call"
    /\ call' = [call EXCEPT !.ret = IsConverged(call.old_F, call.new_F, call.tolerance),
                            !.pc = "ret"]
    /\ UNCHANGED <<solver, dataset, life, gen, boot>>

SpecConverged == ConvergedInit /\ [][ConvergedReturn]_vars

\* C25: is_converged returns true exactly when every window has
\* |new_F[w] - old_F[w]| <= tolerance, that is when the maximum of the
\* differences is at most the tolerance.
C25_ConvergedIffWithinTolerance ==
    (call.fn = "is_converged" /\ call.pc = "ret") =>
        (call.ret <=> \A w \in DOMAIN call.new_F :
                          Le(FAbs(Sub(call.new_F[w], call.old_F[w])), call.tolerance))

\* ---------------------------------------------------------------------------
\* perform_wham: the encoding of F and F_prev around the convergence check
\* ---------------------------------------------------------------------------

\* the iteration that has just run computed P from the exponential-form
\* offsets of the iteration before it
PrevInExponentialForm == P = WhamStepP(dataset, F_prev)

\* C26: every convergence check leaves F at the exponential-form values the
\* iteration produced, and at every exit of the loop F_prev holds the previous
\* iteration's offsets in that same exponential form (the ones P was computed
\* from), not their -kT ln transform.
C26_CheckRestoresEncoding == [][pc = "check" => F' = F]_vars /\ []((pc = "norm" /\ iteration > 0) => PrevInExponentialForm)

\* ---------------------------------------------------------------------------
\* build_histogram_from_timeseries on its own
\* ---------------------------------------------------------------------------

\* the longest time series handed to build_histogram_from_timeseries
MaxPoints == 2

\* what str::parse::<f64> can put into a coordinate column
ParsedCoords == {NaN, NegInf, Neg(One), Zero, One, FromInt(2), FromInt(3), FromInt(4), Inf}

HistConfigs ==
    { [dimens |-> d, num_bins |-> Fill(b, d), hist_min |-> Fill(Zero, d),
       hist_max |-> Fill(FromInt(4), d)] : d \in 1 .. MaxDimens, b \in {0, 2} }

\* the time column and cfg.dimens coordinate columns of n samples
HistSeries(c, n) ==
    { [j \in Idx(c.dimens + 1) |-> IF j = 0 THEN [i \in Idx(n) |-> FromInt(i)] ELSE cols[j - 1]] :
        cols \in [Idx(c.dimens) -> [Idx(n) -> IF c.dimens = 1 THEN ParsedCoords
                                              ELSE {NaN, Zero, FromInt(2), FromInt(4)}]] }

\* build_histogram_from_timeseries(&timeseries, &mask, cfg) is called
HistogramInit ==
    \E c \in HistConfigs, n \in 0 .. MaxPoints :
        \E timeseries \in HistSeries(c, n), mask \in [Idx(n) -> BOOLEAN] :
            /\ InputStage
            /\ call = [fn |-> "build_histogram_from_timeseries", cfg |-> c,
                       timeseries |-> timeseries, mask |-> mask, pc |-> "call",
                       status |-> "none", hist |-> Histogram(0, <<>>)]

\* hist[index] is inside the vector for every sample that is counted
IndexInBounds(timeseries, mask, c) ==
    \A i \in DOMAIN timeseries[0] :
        SampleBin(timeseries, mask, c, i) < ProdTake(c.num_bins, VLen(c.num_bins))

\* the function runs to its return
HistogramReturn ==
    /\ call.fn = "build_histogram_from_timeseries"
    /\ call.pc = "call"
    /\ IndexInBounds(call.timeseries, call.mask, call.cfg)
    /\ call' = [call EXCEPT !.hist = BuildHistogramFromTimeseries(call.timeseries, call.mask,
                                                                  call.cfg),
                            !.status = "ok", !.pc = "ret"]
    /\ UNCHANGED <<solver, dataset, life, gen, boot>>

\* hist[index] += 1.0 with an index past the end of hist
HistogramPanic ==
    /\ call.fn = "build_histogram_from_timeseries"
    /\ call.pc = "call"
    /\ ~IndexInBounds(call.timeseries, call.mask, call.cfg)
    /\ call' = [call EXCEPT !.status = "panic", !.pc = "ret"]
    /\ UNCHANGED <<solver, dataset, life, gen, boot>>

HistogramNext == HistogramReturn \/ HistogramPanic

SpecHistogram == HistogramInit /\ [][HistogramNext]_vars

\* sample i has its mask entry set and its coordinate in [hist_min[d], hist_max[d])
\* in every dimension d
Counted(timeseries, mask, c, i) ==
    /\ mask[i]
    /\ \A d \in Idx(c.dimens) :
          Ge(timeseries[d + 1][i], c.hist_min[d]) /\ Lt(timeseries[d + 1][i], c.hist_max[d])

\* C27: a Histogram returned by build_histogram_from_timeseries has
\* sum(bins) = num_points, num_points is the number of samples with a true
\* mask entry and a coordinate inside [hist_min[d], hist_max[d]) in every
\* dimension, and the bins are those of these samples alone: the other
\* samples change no bin.
C27_HistogramCountsInRange ==
    (call.fn = "build_histogram_from_timeseries" /\ call.pc = "ret" /\ call.status = "ok") =>
        /\ FSum(call.hist.bins) = FromInt(call.hist.num_points)
        /\ call.hist.num_points =
              Cardinality({i \in DOMAIN call.mask :
                              Counted(call.timeseries, call.mask, call.cfg, i)})
        /\ call.hist.bins =
              BuildHistogramFromTimeseries(call.timeseries,
                  [i \in DOMAIN call.mask |-> Counted(call.timeseries, call.mask, call.cfg, i)],
                  call.cfg).bins

\* ---------------------------------------------------------------------------
\* uncorrelate on its own
\* ---------------------------------------------------------------------------

\* a time column and one coordinate column per dimension, n samples each
UncorrSeries(d, n) ==
    { [j \in Idx(d + 1) |-> IF j = 0 THEN [i \in Idx(n) |-> FromInt(i)] ELSE cols[j - 1]] :
        cols \in [Idx(d) -> [Idx(n) -> SeriesValues]] }

\* uncorrelate(timeseries, cfg) is called
UncorrInit ==
    \E d \in 1 .. MaxDimens, n \in 0 .. MaxSeries, verbose \in BOOLEAN :
        \E timeseries \in UncorrSeries(d, n) :
            /\ InputStage
            /\ call = [fn |-> "uncorrelate", timeseries |-> timeseries, verbose |-> verbose,
                       pc |-> "gs", max_g |-> One, trunc_g |-> 0, out |-> <<>>,
                       status |-> "none"]

\* gs and max_g: statistical_ineff of every coordinate column
UncorrIneff ==
    /\ call.fn = "uncorrelate"
    /\ call.pc = "gs"
    /\ VLen(call.timeseries[0]) > 0
    /\ call' = [call EXCEPT !.max_g = MaxG(call.timeseries, VLen(call.timeseries) - 1),
                            !.pc = "round"]
    /\ UNCHANGED <<solver, dataset, life, gen, boot>>

\* statistical_ineff of a column without samples panics
UncorrIneffPanic ==
    /\ call.fn = "uncorrelate"
    /\ call.pc = "gs"
    /\ VLen(call.timeseries[0]) = 0
    /\ call' = [call EXCEPT !.status = "panic", !.pc = "ret"]
    /\ UNCHANGED <<solver, dataset, life, gen, boot>>

\* round g up
UncorrRound ==
    /\ call.fn = "uncorrelate"
    /\ call.pc = "round"
    /\ call' = [call EXCEPT !.trunc_g = Stride(call.max_g), !.pc = "step"]
    /\ UNCHANGED <<solver, dataset, life, gen, boot>>

\* filter correlated samples from timeseries
UncorrStep ==
    /\ call.fn = "uncorrelate"
    /\ call.pc = "step"
    /\ call' = [call EXCEPT !.out = StepAll(call.timeseries, call.trunc_g), !.pc = "report"]
    /\ UNCHANGED <<solver, dataset, life, gen, boot>>

\* the verbose report reads timeseries[0][1] and timeseries[0][0] of the
\* thinned series
ReportPanics == call.verbose /\ VLen(call.out[0]) < 2

UncorrReport ==
    /\ call.fn = "uncorrelate"
    /\ call.pc = "report"
    /\ call' = [call EXCEPT !.status = IF ReportPanics THEN "panic" ELSE "ok", !.pc = "ret"]
    /\ UNCHANGED <<solver, dataset, life, gen, boot>>

UncorrNext == UncorrIneff \/ UncorrIneffPanic \/ UncorrRound \/ UncorrStep \/ UncorrReport

SpecUncorrelate == UncorrInit /\ [][UncorrNext]_vars

\* the samples at positions 0, stride, 2*stride, ... of a column
EveryNth(v, stride) == [i \in Idx((VLen(v) + stride - 1) \div stride) |-> v[i * stride]]

\* C28: uncorrelate returns the series thinned with stride = ceil(max g_d),
\* which is at least 1: every column, the time column included, keeps exactly
\* its samples at positions 0, stride, 2*stride, ..., so the columns stay of
\* equal length, and with stride 1 the series comes back unchanged.
C28_UncorrelateStride ==
    (call.fn = "uncorrelate" /\ call.pc = "ret") =>
        /\ call.status = "ok"
        /\ call.trunc_g >= 1
        /\ call.trunc_g = CeilInt(MaxG(call.timeseries, VLen(call.timeseries) - 1))
        /\ call.out = [j \in DOMAIN call.timeseries |-> EveryNth(call.timeseries[j], call.trunc_g)]
        /\ \A j \in DOMAIN call.out : VLen(call.out[j]) = VLen(call.out[0])
        /\ (call.trunc_g = 1 => call.out = call.timeseries)

\* ---------------------------------------------------------------------------
\* run_bootstrap: the datasets of the runs
\* ---------------------------------------------------------------------------

\* the dataset a run works on is the base dataset with the weights of that run
RunDatasetIsolated ==
    /\ (boot.pc = "weights" /\ gen.pc # "applied") => dataset = boot.ds
    /\ (boot.pc = "weights" /\ gen.pc = "applied") =>
           [dataset EXCEPT !.weights = boot.ds.weights] = boot.ds
    /\ boot.pc = "solve" =>
           /\ dataset.weights = boot.drawn[boot.x]
           /\ [dataset EXCEPT !.weights = boot.ds.weights] = boot.ds

\* run_bootstrap has ended after num_runs solves, one P per solve
AllRunsSolved ==
    boot.pc \in {"done", "panic"} =>
        /\ VLen(boot.drawn) = boot.num_runs
        /\ VLen(boot.bootstrapped_Ps) = boot.num_runs
        /\ \A x \in DOMAIN boot.bootstrapped_Ps : VLen(boot.bootstrapped_Ps[x]) = boot.ds.num_bins

\* C29: every bootstrap run works on a fresh clone of the base dataset in
\* which only the weights are replaced by the weights drawn for that run, the
\* base dataset keeps its weights throughout run_bootstrap, and run_bootstrap
\* performs exactly num_runs solves, each giving one P vector of num_bins
\* entries.
C29_BootstrapRunsIsolated == [](RunDatasetIsolated /\ AllRunsSolved) /\ [][boot'.ds = boot.ds]_vars

\* ---------------------------------------------------------------------------
\* run (src/src/lib.rs): read_data, perform_wham, run_bootstrap,
\* calc_free_energy, write_results
\* ---------------------------------------------------------------------------

\* the input of run: no window at all, or two windows with up to two samples
\* in the first one and four in the second
RunFiles ==
    { f \in MetadataFiles :
        VLen(f) = 0 \/ (VLen(f[0].columns[0]) <= 2 /\ VLen(f[1].columns[0]) = 4
                        /\ (VLen(f[0].columns[0]) > 0 => f[0].columns[0][0] = Zero)) }

RunConfigs ==
    { [c EXCEPT !.temperature = temperature] :
        c \in {r \in ReadConfigs : r.convdt = Zero /\ ~r.uncorr},
        temperature \in {FromInt(120), FromInt(300)} }

NoOutput == [free |-> <<>>, free_std |-> <<>>, prob |-> <<>>, prob_std |-> <<>>]

\* run(&cfg) is called
RunInit ==
    \E rc \in RunConfigs, files \in RunFiles, bootstrap \in 0 .. MaxRuns,
       bootstrap_seed \in {0, MaxSeed}, max_iterations \in {10, MaxIterations} :
        /\ NoSolve(GridDataset(Hist2(1, 0), Hist2(0, 1), One, FromInt(3), FromInt(8), One, FALSE))
        /\ lastOp = "new"
        /\ given = V2(One, One)
        /\ reassigned = FALSE
        /\ gen = GenIdle
        /\ boot = BootIdle
        /\ call = [fn |-> "run", pc |-> "read_data", rc |-> rc, files |-> files,
                   bootstrap |-> bootstrap, bootstrap_seed |-> bootstrap_seed,
                   solve |-> [max_iterations |-> max_iterations, tolerance |-> Round(1, -4)],
                   read |-> "none", wham |-> "none", trace |-> <<>>, P |-> <<>>, F |-> <<>>, F_prev |-> <<>>,
                   P_std |-> <<>>, free_energy_std |-> <<>>, free_energy |-> <<>>,
                   written |-> NoOutput, ret |-> <<>>]

\* what run does with the result of read_data: `?` on the chained error
AfterReadData(read) ==
    CASE read.status = "ok" ->
            /\ dataset' = read.datasets[0]
            /\ call' = [call EXCEPT !.read = "ok", !.trace = Append(@, "read_data"),
                                    !.pc = "perform_wham"]
      [] read.status = "err" ->
            /\ dataset' = dataset
            /\ call' = [call EXCEPT !.read = "err", !.trace = Append(@, "read_data"),
                                    !.pc = "ret", !.ret = <<"Failed to create histogram.", "read_data">>]
      [] OTHER ->
            /\ dataset' = dataset
            /\ call' = [call EXCEPT !.read = "panic", !.trace = Append(@, "read_data"),
                                    !.pc = "panic"]

\* let dataset = io::read_data(&cfg).chain_err(|| "Failed to create histogram.")?
RunReadData ==
    /\ call.fn = "run"
    /\ call.pc = "read_data"
    /\ AfterReadData(ReadData(call.rc, call.files))
    /\ UNCHANGED <<solver, life, gen, boot>>

\* perform_wham(&cfg, &dataset) is called
RunPerformWham ==
    /\ call.fn = "run"
    /\ call.pc = "perform_wham"
    /\ cfg' = call.solve
    /\ P' = Fill(NaN, dataset.num_bins)
    /\ F' = Fill(One, dataset.num_windows)
    /\ F_prev' = Fill(NaN, dataset.num_windows)
    /\ F_tmp' = Fill(NaN, dataset.num_windows)
    /\ iteration' = 0
    /\ converged' = FALSE
    /\ result' = "none"
    /\ pWrites' = Fill(0, dataset.num_bins)
    /\ fWrites' = Fill(0, dataset.num_windows)
    /\ pc' = "while"
    /\ call' = [call EXCEPT !.trace = Append(@, "perform_wham"), !.pc = "solving"]
    /\ UNCHANGED <<dataset, free_energy, checks, life, gen, boot>>

\* let (P, F, F_prev) = perform_wham(&cfg, &dataset)?
RunSolved ==
    /\ call.fn = "run"
    /\ call.pc = "solving"
    /\ pc = "done"
    /\ pc' = "idle"
    /\ call' = IF result = "err"
               THEN [call EXCEPT !.wham = "err", !.pc = "ret", !.ret = <<"perform_wham">>]
               ELSE [call EXCEPT !.wham = "ok", !.pc = "branch", !.P = P, !.F = F, !.F_prev = F_prev]
    /\ UNCHANGED <<cfg, dataset, P, F, F_prev, F_tmp, iteration, converged, result,
                   free_energy, pWrites, fWrites, checks, life, gen, boot>>

BootstrapWantedMut(bootstrap) == TRUE

\* if cfg.bootstrap > 0
BootstrapWanted(bootstrap) == bootstrap > 0

\* error_analysis::run_bootstrap(&cfg, dataset.clone(), .., cfg.bootstrap) is called
RunBootstrap ==
    /\ call.fn = "run"
    /\ call.pc = "branch"
    /\ BootstrapWanted(call.bootstrap)
    /\ boot' = [pc |-> "seed", seed |-> call.bootstrap_seed, rng |-> 0, num_runs |-> call.bootstrap,
                x |-> 0, ds |-> dataset, bootstrapped_Ps |-> <<>>, drawn |-> <<>>,
                out |-> "none", exec |-> 2, first |-> "none"]
    /\ call' = [call EXCEPT !.trace = Append(@, "run_bootstrap"), !.pc = "bootstrap"]
    /\ UNCHANGED <<solver, dataset, life, gen>>

\* run_bootstrap returns the standard errors, or a run has panicked
RunBootstrapEnd ==
    /\ call.fn = "run"
    /\ call.pc = "bootstrap"
    /\ boot.pc \in {"done", "panic"}
    /\ call' = IF boot.pc = "panic" THEN [call EXCEPT !.pc = "panic"]
               ELSE [call EXCEPT !.P_std = boot.out[1], !.free_energy_std = boot.out[2],
                                 !.pc = "free"]
    /\ dataset' = boot.ds
    /\ boot' = BootIdle
    /\ UNCHANGED <<solver, life, gen>>

\* P_std = vec![0.0; P.len()]; free_energy_std = vec![0.0; P.len()]
RunNoBootstrap ==
    /\ call.fn = "run"
    /\ call.pc = "branch"
    /\ ~BootstrapWanted(call.bootstrap)
    /\ call' = [call EXCEPT !.P_std = Fill(Zero, VLen(call.P)),
                            !.free_energy_std = Fill(Zero, VLen(call.P)), !.pc = "free"]
    /\ UNCHANGED <<solver, dataset, life, gen, boot>>

\* let free_energy = calc_free_energy(&dataset, &P); dump_state(..)
RunFreeEnergy ==
    /\ call.fn = "run"
    /\ call.pc = "free"
    /\ call' = [call EXCEPT !.free_energy = CalcFreeEnergy(dataset, call.P),
                            !.trace = Append(@, "calc_free_energy"), !.pc = "write"]
    /\ UNCHANGED <<solver, dataset, life, gen, boot>>

\* io::write_results(..).chain_err(|| "Could not write results to output file")?
\* the output file can be written or not
RunWriteResults(ok) ==
    /\ call.fn = "run"
    /\ call.pc = "write"
    /\ call' = [call EXCEPT !.written = [free |-> call.free_energy,
                                         free_std |-> call.free_energy_std,
                                         prob |-> call.P, prob_std |-> call.P_std],
                            !.trace = Append(@, "write_results"),
                            !.ret = IF ok THEN <<"Ok">>
                                    ELSE <<"Could not write results to output file",
                                           "write_results">>,
                            !.pc = "ret"]
    /\ UNCHANGED <<solver, dataset, life, gen, boot>>

RunNext ==
    \/ RunReadData
    \/ RunPerformWham
    \/ LoopEnter
    \/ LoopExit
    \/ \E bin \in Bins : BinWorker(bin)
    \/ \E window \in Windows : WindowWorker(window)
    \/ IterationReturn
    \/ ConvergenceCheck
    \/ NoCheck
    \/ Normalize
    \/ Return
    \/ RunSolved
    \/ RunBootstrap
    \/ BootSeed
    \/ BootClone
    \/ BootDraw
    \/ GenSort
    \/ GenDiff
    \/ GenApply
    \/ BootSolve
    \/ BootCollect
    \/ BootStats
    \/ RunBootstrapEnd
    \/ RunNoBootstrap
    \/ RunFreeEnergy
    \/ \E ok \in BOOLEAN : RunWriteResults(ok)

SpecRun == RunInit /\ [][RunNext]_vars

\* the steps of run in their order
RunOrder(bootstrap) ==
    <<"read_data", "perform_wham">>
        \o (IF bootstrap > 0 THEN <<"run_bootstrap">> ELSE <<>>)
        \o <<"calc_free_energy", "write_results">>

IsPrefix(s, t) == Len(s) <= Len(t) /\ \A i \in 1 .. Len(s) : s[i] = t[i]

\* the error run returns is the one its callee returned, under the context
\* chain_err has added
Carries(ret, error) == Len(ret) > 0 /\ ret[Len(ret)] = error

\* C30: run calls read_data, perform_wham, run_bootstrap (only when
\* cfg.bootstrap > 0), calc_free_energy and write_results in this order; an
\* error of read_data or of perform_wham is returned by run and write_results
\* is not called; with cfg.bootstrap = 0 the error columns handed to
\* write_results are all zero.
C30_RunOrder ==
    call.fn = "run" =>
        /\ IsPrefix(call.trace, RunOrder(call.bootstrap))
        /\ (call.pc = "ret" /\ call.ret = <<"Ok">>) => call.trace = RunOrder(call.bootstrap)
        /\ call.read = "err" =>
               /\ call.pc = "ret"
               /\ Carries(call.ret, "read_data")
               /\ call.trace = <<"read_data">>
        /\ call.wham = "err" =>
               /\ call.pc = "ret"
               /\ Carries(call.ret, "perform_wham")
               /\ call.trace = <<"read_data", "perform_wham">>
        /\ (call.bootstrap = 0 /\ call.pc = "ret" /\ Len(call.trace) = Len(RunOrder(0))) =>
               /\ call.written.free_std = Fill(Zero, VLen(call.written.prob))
               /\ call.written.prob_std = Fill(Zero, VLen(call.written.prob))
               /\ VLen(call.written.prob) = dataset.num_bins

\* run has written the results of a solve without bootstrap
C30_Witness ==
    /\ call.fn = "run"
    /\ call.pc = "ret"
    /\ call.ret = <<"Ok">>
    /\ call.bootstrap = 0
    /\ call.trace = <<"read_data", "perform_wham", "calc_free_energy", "write_results">>
    /\ \A b \in DOMAIN call.written.prob : IsFinite(call.written.prob[b])

====
